---- MODULE Spec2Model ----
(***************************************************************************)
(* cached-middleware-fetch-next: the orchestrator cachedFetch of           *)
(* src/src/index.ts (lines 579-1087, the current version of the file),     *)
(* with the key-value store, the origin transport and the clock as its     *)
(* environment.                                                            *)
(*                                                                         *)
(* The clock counts ticks; a second has TicksPerSec ticks (the source      *)
(* counts milliseconds, 1000 to a second: a coarser tick keeps a one-year  *)
(* deadline inside TLC's integers while a deadline can still be passed by  *)
(* less than a second).                                                    *)
(***************************************************************************)
EXTENDS Integers, Sequences, FiniteSets, TLC

VARIABLES
  now,            \* Date.now(), in ticks
  ticks,          \* how many times the clock has advanced
  store,          \* the key-value store: key -> slot
  calls,          \* the cachedFetch invocations in flight: id -> call record
  trial           \* a pure function under examination: its inputs and results

vars == <<now, ticks, store, calls, trial>>

----------------------------------------------------------------------------
(* Bounds of the model *)

MaxTicks == 1
TicksPerSec == 2
MaxBodyLen == 3

\* Two invocations of cachedFetch may be in flight at once, each with its
\* detached work; the slot of an invocation is reused once it has settled.
Calls == {1, 2}

----------------------------------------------------------------------------
(* Program constants *)

DaySeconds == 86400
YearDays == 365
MinTTL == 60
RevalidateN == 3600
NoTime == 0

----------------------------------------------------------------------------
(* Requests *)

Unset == [t |-> "unset", n |-> 0]
Never == [t |-> "false", n |-> 0]
Num(k) == [t |-> "num", n |-> k]

\* A string is the sequence of its code points, a byte array the sequence of
\* its bytes. A body has one of the representations of BodyInit:
\*   text    the characters of a string, the bytes of a Uint8Array, a Blob or
\*           an ArrayBuffer
\*   chunks  the byte arrays a ReadableStream delivers
\*   pairs   the entries of a FormData or a URLSearchParams
BodyOf(k, t, cs, ps) == [kind |-> k, text |-> t, chunks |-> cs, pairs |-> ps]

NoBody == BodyOf("none", <<>>, <<>>, <<>>)
Str(s) == BodyOf("string", s, <<>>, <<>>)
Bytes(b) == BodyOf("bytes", b, <<>>, <<>>)
Stream(cs) == BodyOf("stream", <<>>, cs, <<>>)
BadStream == BodyOf("badstream", <<>>, <<>>, <<>>)
Form(ps) == BodyOf("form", <<>>, <<>>, ps)
Params(ps) == BodyOf("params", <<>>, <<>>, ps)
Blob(b) == BodyOf("blob", b, <<>>, <<>>)
Buffer(b) == BodyOf("buffer", b, <<>>, <<>>)

\* An entry of a FormData or a URLSearchParams: a name with a string value, or
\* (FormData only) with a file of the given content
Field(k, v) == [key |-> k, value |-> v, file |-> FALSE]
FileField(k, v) == [key |-> k, value |-> v, file |-> TRUE]

\* init.headers: absent, an array of [name, value] pairs, a plain object (its
\* properties in insertion order) or a Headers instance built from a list
NoHeaders == [kind |-> "none", list |-> <<>>]
HeaderArray(l) == [kind |-> "array", list |-> l]
HeaderObject(l) == [kind |-> "object", list |-> l]
HeadersInstance(l) == [kind |-> "Headers", list |-> l]

\* init.next.tags: absent (no tag) or a list of labels
NoTags == <<>>

\* init.next.fetchCacheKeyPrefix: absent or a string
NoPrefix == [given |-> FALSE, text |-> ""]
Prefix(s) == [given |-> TRUE, text |-> s]

Req(m, c, rv, e, b) ==
  [url |-> "https://x/a", method |-> m, cache |-> c, revalidate |-> rv,
   expires |-> e, body |-> b, headers |-> NoHeaders, prefix |-> NoPrefix,
   tags |-> NoTags]

WithBody(r, b) == [r EXCEPT !.body = b]
WithHeaders(r, h) == [r EXCEPT !.headers = h]
WithPrefix(r, p) == [r EXCEPT !.prefix = p]
WithTags(r, t) == [r EXCEPT !.tags = t]

\* The requests of the model: a cacheable GET, the two ways to bypass the
\* cache, a request whose body stream errors while it is drained, and a
\* method that is never stored.
Requests ==
  {Req("GET", "auto no cache", Num(RevalidateN), 0, NoBody),
   Req("GET", "no-store", Num(RevalidateN), 0, NoBody),
   Req("GET", "auto no cache", Num(0), 0, NoBody),
   Req("POST", "auto no cache", Num(RevalidateN), 0, BadStream),
   Req("DELETE", "auto no cache", Num(RevalidateN), 0, NoBody)}

----------------------------------------------------------------------------
(* The origin: what fetch can answer *)

NullBodyStatuses == {204, 205}

\* The headers of a response or of an entry: (lowercased name, value) pairs,
\* one to a name
NoResponseHeaders == {}

\* What a record read from the store may lack: nothing, its status, its data,
\* its headers, or headers that are of no type new Headers accepts (a number,
\* a string)
Sound == ""
Defects == {"status", "data", "headers", "headersType"}

\* A response of the origin: its status, its body, whether the body can be
\* read to its end, and its headers
Answer(st, b, rd, h) ==
  [kind |-> "response", status |-> st, body |-> b, readable |-> rd,
   headers |-> h]

NetErr ==
  [kind |-> "neterr", status |-> 0, body |-> <<>>, readable |-> FALSE,
   headers |-> NoResponseHeaders]

\* The origin's content changes with time: a body is the time it was served
\* at. A 2xx body may fail while it is read; a 204 has no body.
OriginResponses ==
  {Answer(200, <<now>>, rd, NoResponseHeaders) : rd \in BOOLEAN}
    \cup {Answer(204, <<>>, TRUE, NoResponseHeaders),
          Answer(404, <<now>>, TRUE, NoResponseHeaders),
          NetErr}

----------------------------------------------------------------------------
(* Pure functions of index.ts *)

Max(a, b) == IF a >= b THEN a ELSE b

\* String(method).toUpperCase()
ToUpperCase(m) ==
  CASE m = "get" -> "GET"
    [] m = "post" -> "POST"
    [] m = "delete" -> "DELETE"
    [] m = "put" -> "PUT"
    [] m = "patch" -> "PATCH"
    [] m = "head" -> "HEAD"
    [] OTHER -> m

\* Line 953: the method of the request, GET when none is given
NoMethod == ""
MethodOf(r) == ToUpperCase(IF r.method = NoMethod THEN "GET" ELSE r.method)

\* The cache mode cleanFetchOptions hands to the transport: 'auto no cache' has
\* no mapping and is omitted, which a Request reads back as 'default'.
cleanFetchOptions(r) ==
  IF r.cache = "no-store" THEN "no-store"
  ELSE IF r.cache = "force-cache" THEN "force-cache"
  ELSE "default"

\* String.prototype.toLowerCase on the header names of the model
ToLowerCase(n) ==
  CASE n = "A" -> "a"
    [] n = "B" -> "b"
    [] n = "Traceparent" -> "traceparent"
    [] n = "TRACEPARENT" -> "traceparent"
    [] n = "TraceState" -> "tracestate"
    [] n = "X-Cache-Status" -> "x-cache-status"
    [] n = "Application/" -> "application/"
    [] n = "JSON" -> "json"
    [] OTHER -> n

\* The code points the normaliser writes or the decoder substitutes
Equals == 61
Comma == 44
LeftBrace == 123
RightBrace == 125
ReplacementChar == 65533

RECURSIVE Utf8Decode(_)
\* TextDecoder.decode: an ASCII byte is its character; a byte that can occur in
\* no UTF-8 sequence (0xFE, 0xFF) decodes to U+FFFD. The bytes of the model are
\* of these two sorts.
Utf8Decode(bytes) ==
  IF bytes = <<>> THEN <<>>
  ELSE <<IF Head(bytes) < 128 THEN Head(bytes) ELSE ReplacementChar>>
         \o Utf8Decode(Tail(bytes))

RECURSIVE Utf8Encode(_)
\* The UTF-8 bytes of a string of the Basic Multilingual Plane
Utf8Encode(chars) ==
  IF chars = <<>> THEN <<>>
  ELSE LET c == Head(chars) IN
       (IF c < 128 THEN <<c>>
        ELSE IF c < 2048 THEN <<192 + (c \div 64), 128 + (c % 64)>>
        ELSE <<224 + (c \div 4096), 128 + ((c \div 64) % 64), 128 + (c % 64)>>)
         \o Utf8Encode(Tail(chars))

RECURSIVE Concat(_)
\* The chunks of a stream combined into one byte array
Concat(chunks) ==
  IF chunks = <<>> THEN <<>> ELSE Head(chunks) \o Concat(Tail(chunks))

RECURSIVE Join(_, _)
\* Array.prototype.join
Join(strings, sep) ==
  IF strings = <<>> THEN <<>>
  ELSE IF Len(strings) = 1 THEN Head(strings)
  ELSE Head(strings) \o sep \o Join(Tail(strings), sep)

RECURSIVE Serialize(_, _)
\* body.forEach of a FormData (string values only) or a URLSearchParams:
\* the strings `${key}=${value}`
Serialize(pairs, stringsOnly) ==
  IF pairs = <<>> THEN <<>>
  ELSE (IF stringsOnly /\ Head(pairs).file THEN <<>>
        ELSE <<Head(pairs).key \o <<Equals>> \o Head(pairs).value>>)
         \o Serialize(Tail(pairs), stringsOnly)

\* A slip of the normaliser: the stream it has drained is handed on
StreamSubstituteOriginal(cs) == Stream(cs)

\* Lines 617-628: the chunks read from the stream, combined into one
\* Uint8Array, which stands in for the stream in the outbound requests
StreamSubstitute(cs) == Bytes(Concat(cs))

\* The body normaliser: the chunks to hash, the reusable body for the outbound
\* request (the original where none is substituted), and whether it threw.
processBodyForCacheKey(body) ==
  CASE body.kind = "none" \/ (body.kind = "string" /\ body.text = <<>>) ->
         [threw |-> FALSE, chunks |-> <<>>, ogBody |-> body]
    [] body.kind = "bytes" ->
         [threw |-> FALSE, chunks |-> <<Utf8Decode(body.text)>>, ogBody |-> body]
    [] body.kind = "stream" ->
         [threw |-> FALSE, chunks |-> <<Utf8Decode(Concat(body.chunks))>>,
          ogBody |-> StreamSubstitute(body.chunks)]
    [] body.kind = "badstream" ->
         [threw |-> TRUE, chunks |-> <<>>, ogBody |-> body]
    [] body.kind = "form" ->
         [threw |-> FALSE,
          chunks |-> <<Join(Serialize(body.pairs, TRUE), <<Comma>>)>>,
          ogBody |-> body]
    [] body.kind = "params" ->
         [threw |-> FALSE,
          chunks |-> <<Join(Serialize(body.pairs, FALSE), <<Comma>>)>>,
          ogBody |-> body]
    [] body.kind = "blob" ->
         [threw |-> FALSE, chunks |-> <<Utf8Decode(body.text)>>,
          ogBody |-> Blob(Utf8Encode(Utf8Decode(body.text)))]
    [] body.kind = "string" ->
         [threw |-> FALSE, chunks |-> <<body.text>>, ogBody |-> body]
    [] OTHER ->
         \* JSON.stringify of an ArrayBuffer: it has no enumerable property
         [threw |-> FALSE, chunks |-> <<<<LeftBrace, RightBrace>>>>,
          ogBody |-> body]

\* The lowercased header names of the model in the order a Headers instance
\* iterates them (sorted by name)
HeaderNameOrder == <<"a", "b", "traceparent", "tracestate">>

RECURSIVE Combined(_, _)
\* The values a Headers instance holds for a name, joined by ", "
Combined(list, name) ==
  IF list = <<>> THEN ""
  ELSE LET rest == Combined(Tail(list), name) IN
       IF ToLowerCase(Head(list)[1]) # name THEN rest
       ELSE IF rest = "" THEN Head(list)[2]
       ELSE Head(list)[2] \o ", " \o rest

RECURSIVE HeadersEntries(_, _)
\* headers.forEach of a Headers instance: one entry per name, names sorted
HeadersEntries(list, names) ==
  IF names = <<>> THEN <<>>
  ELSE (IF \E i \in 1..Len(list) : ToLowerCase(list[i][1]) = Head(names)
        THEN <<<<Head(names), Combined(list, Head(names))>>>>
        ELSE <<>>)
         \o HeadersEntries(list, Tail(names))

\* headerObj[lowerKey] = value: a property keeps the place of its first
\* assignment; a new property goes last
Assign(obj, key, value) ==
  IF \E i \in 1..Len(obj) : obj[i][1] = key
  THEN [i \in 1..Len(obj) |-> IF obj[i][1] = key THEN <<key, value>> ELSE obj[i]]
  ELSE Append(obj, <<key, value>>)

RECURSIVE CollectHeaders(_, _)
\* The forEach of processHeadersForCacheKey: trace context headers are skipped
CollectHeaders(entries, obj) ==
  IF entries = <<>> THEN obj
  ELSE LET lowerKey == ToLowerCase(Head(entries)[1]) IN
       CollectHeaders(Tail(entries),
         IF lowerKey # "traceparent" /\ lowerKey # "tracestate"
         THEN Assign(obj, lowerKey, Head(entries)[2])
         ELSE obj)

\* The header object of the key: its properties in insertion order, which is
\* the order JSON.stringify writes them in
processHeadersForCacheKey(headers) ==
  IF headers.kind = "none" THEN <<>>
  ELSE IF headers.kind = "Headers"
  THEN CollectHeaders(HeadersEntries(headers.list, HeaderNameOrder), <<>>)
  ELSE CollectHeaders(headers.list, <<>>)

\* fetchCacheKeyPrefix || ''
OrEmpty(prefix) == IF prefix.given THEN prefix.text ELSE ""

\* A slip of the key: the body chunks are left out of the components
generateCacheKeyNoBody(r, chunks) ==
  <<"v3", OrEmpty(r.prefix), r.url, MethodOf(r),
    processHeadersForCacheKey(r.headers), cleanFetchOptions(r), <<>>>>

\* A slip of the key: the prefix is left out of the components
generateCacheKeyNoPrefix(r, chunks) ==
  <<"v3", "", r.url, MethodOf(r),
    processHeadersForCacheKey(r.headers), cleanFetchOptions(r), chunks>>

\* A slip of the key: the revalidate and expires options are among the
\* components
generateCacheKeyWithFreshness(r, chunks) ==
  <<"v3", OrEmpty(r.prefix), r.url, MethodOf(r),
    processHeadersForCacheKey(r.headers), cleanFetchOptions(r), chunks,
    r.revalidate, r.expires>>

\* A slip of the key: the cache mode of the cleaned options is left out
generateCacheKeyNoMode(r, chunks) ==
  <<"v3", OrEmpty(r.prefix), r.url, MethodOf(r),
    processHeadersForCacheKey(r.headers), "default", chunks>>

\* A slip of the key: the tags are among the components
generateCacheKeyWithTags(r, chunks) ==
  <<"v3", OrEmpty(r.prefix), r.url, MethodOf(r),
    processHeadersForCacheKey(r.headers), cleanFetchOptions(r), chunks, r.tags>>

\* The key is the digest of the JSON text of these components; the digest is
\* taken to be collision free, so the components stand for it.
generateCacheKey(r, chunks) ==
  <<"v3", OrEmpty(r.prefix), r.url, MethodOf(r),
    processHeadersForCacheKey(r.headers), cleanFetchOptions(r), chunks>>

\* A slip of the expiry test: an entry read on its deadline is expired
isCacheEntryExpiredOnDeadline(entry) ==
  IF entry.expiresAt = NoTime THEN FALSE ELSE now >= entry.expiresAt

isCacheEntryExpired(entry) ==
  IF entry.expiresAt = NoTime THEN FALSE ELSE now > entry.expiresAt

needsRevalidation(entry) ==
  IF entry.revalidateAfter = NoTime THEN FALSE ELSE now > entry.revalidateAfter

\* A slip of response.ok: the upper end of the 2xx range is not checked
IsOkNoUpperBound(status) == status >= 200

\* response.ok
IsOk(status) == status >= 200 /\ status <= 299

\* A slip of the store guard: the method is not looked at
IsCacheableMethodAny(method) == TRUE

\* method === 'GET' || method === 'POST' || method === 'PUT'
IsCacheableMethod(method) == method \in {"GET", "POST", "PUT"}

\* A slip of the encoder: revalidate false is taken as the number 0
RevalidateAfterOfCoerced(r) ==
  IF r.revalidate.t = "num" /\ r.revalidate.n > 0
  THEN now + r.revalidate.n * TicksPerSec
  ELSE IF r.revalidate.t = "false" THEN now
  ELSE NoTime

RevalidateAfterOf(r) ==
  IF r.revalidate.t = "num" /\ r.revalidate.n > 0
  THEN now + r.revalidate.n * TicksPerSec
  ELSE NoTime

\* A slip of the encoder: an expires option is taken whatever its size
ExpiresAtOfTakingExpires(r) ==
  IF r.revalidate.t = "false"
  THEN now + YearDays * 24 * 60 * 60 * TicksPerSec
  ELSE IF r.revalidate.t = "num" /\ r.revalidate.n > 0
  THEN IF r.expires # 0
       THEN now + r.expires * TicksPerSec
       ELSE now + Max(DaySeconds, r.revalidate.n * 10) * TicksPerSec
  ELSE NoTime

\* A slip of the encoder: without a revalidate option the entry gets the
\* default expiry of a day
ExpiresAtOfDefaulting(r) ==
  IF r.revalidate.t = "false"
  THEN now + YearDays * 24 * 60 * 60 * TicksPerSec
  ELSE IF r.revalidate.t = "num" /\ r.revalidate.n > 0
  THEN IF r.expires # 0 /\ r.expires > r.revalidate.n
       THEN now + r.expires * TicksPerSec
       ELSE now + Max(DaySeconds, r.revalidate.n * 10) * TicksPerSec
  ELSE now + DaySeconds * TicksPerSec

\* A slip of the encoder: the expires option is not looked at
ExpiresAtOfIgnoringExpires(r) ==
  IF r.revalidate.t = "false"
  THEN now + YearDays * 24 * 60 * 60 * TicksPerSec
  ELSE IF r.revalidate.t = "num" /\ r.revalidate.n > 0
  THEN now + Max(DaySeconds, r.revalidate.n * 10) * TicksPerSec
  ELSE NoTime

ExpiresAtOf(r) ==
  IF r.revalidate.t = "false"
  THEN now + YearDays * 24 * 60 * 60 * TicksPerSec
  ELSE IF r.revalidate.t = "num" /\ r.revalidate.n > 0
  THEN IF r.expires # 0 /\ r.expires > r.revalidate.n
       THEN now + r.expires * TicksPerSec
       ELSE now + Max(DaySeconds, r.revalidate.n * 10) * TicksPerSec
  ELSE NoTime

\* A slip of the encoder: the entry is not stamped with the time of encoding
responseToCacheUnstamped(resp, r) ==
  [data |-> resp.body, headers |-> resp.headers, status |-> resp.status,
   timestamp |-> NoTime, revalidateAfter |-> RevalidateAfterOf(r),
   expiresAt |-> ExpiresAtOf(r), tags |-> r.tags, defect |-> Sound]

\* The entry of a response. The invocations carry a body as one content, in
\* the entry as in the response; what lines 799-810 and 871-878 make of its
\* bytes is EncodeBody and DecodeBody.
responseToCache(resp, r) ==
  [data |-> resp.body, headers |-> resp.headers, status |-> resp.status,
   timestamp |-> now, revalidateAfter |-> RevalidateAfterOf(r),
   expiresAt |-> ExpiresAtOf(r), tags |-> r.tags, defect |-> Sound]

\* A slip of the TTL: the floor of 60 seconds is left out
computeTTLNoFloor(expiresAt) ==
  IF expiresAt = NoTime THEN DaySeconds
  ELSE (expiresAt - now) \div TicksPerSec

computeTTL(expiresAt) ==
  IF expiresAt = NoTime THEN DaySeconds
  ELSE Max(MinTTL, (expiresAt - now) \div TicksPerSec)

\* The content types of the model that the encoder's pattern takes as text
\* (text/*, application/json and the like); any other, or none, is binary
\* A content type is the sequence of the pieces of its text, the empty
\* sequence when the header is missing: <<"application/", "json", "-seq">> is
\* application/json-seq. The regular expression of line 800 is not anchored at
\* its end and ignores case: it matches when the text begins with one of these.
TextPrefixes ==
  {<<"text/">>, <<"application/", "json">>, <<"application/", "javascript">>,
   <<"application/", "xml">>, <<"application/", "x-www-form-urlencoded">>,
   <<"image/", "svg+xml">>}

IsPrefix(p, s) == Len(p) <= Len(s) /\ SubSeq(s, 1, Len(p)) = p

LowerCased(contentType) ==
  [i \in 1..Len(contentType) |-> ToLowerCase(contentType[i])]

shouldTreatAsText(contentType) ==
  \E p \in TextPrefixes : IsPrefix(p, LowerCased(contentType))

\* A base64 string is the sequence of its digits, 0..63, and padding
Pad == 64

RECURSIVE toBase64(_)
\* Three bytes to four digits; one or two trailing bytes are padded
toBase64(bytes) ==
  IF bytes = <<>> THEN <<>>
  ELSE IF Len(bytes) = 1
  THEN <<bytes[1] \div 4, (bytes[1] % 4) * 16, Pad, Pad>>
  ELSE IF Len(bytes) = 2
  THEN <<bytes[1] \div 4, ((bytes[1] % 4) * 16) + (bytes[2] \div 16),
         (bytes[2] % 16) * 4, Pad>>
  ELSE <<bytes[1] \div 4, ((bytes[1] % 4) * 16) + (bytes[2] \div 16),
         ((bytes[2] % 16) * 4) + (bytes[3] \div 64), bytes[3] % 64>>
         \o toBase64(SubSeq(bytes, 4, Len(bytes)))

RECURSIVE fromBase64(_)
\* Four digits to three bytes; padding ends the string
fromBase64(b64) ==
  IF Len(b64) < 4 THEN <<>>
  ELSE LET first == (b64[1] * 4) + (b64[2] \div 16)
           second == ((b64[2] % 16) * 16) + (b64[3] \div 4)
           third == ((b64[3] % 4) * 64) + b64[4]
       IN IF b64[3] = Pad THEN <<first>>
          ELSE IF b64[4] = Pad THEN <<first, second>>
          ELSE <<first, second, third>> \o fromBase64(SubSeq(b64, 5, Len(b64)))

\* Lines 799-810: the body of a response as the entry holds it: the text of a
\* textual content type, the base64 of the bytes of any other
EncodeBody(contentType, bytes) ==
  IF shouldTreatAsText(contentType)
  THEN [data |-> Utf8Decode(bytes), isBinary |-> FALSE]
  ELSE [data |-> toBase64(bytes), isBinary |-> TRUE]

\* Lines 871-878: the body handed to the Response constructor, as the bytes
\* the response will deliver
DecodeBody(data, isBinary) ==
  IF isBinary THEN fromBase64(data) ELSE Utf8Encode(data)

\* new Response(body, {status}) of the Fetch standard refuses a body, even an
\* empty one, with a null-body status; cacheToResponse always passes a body.
ResponseCtorThrows(status) == status \in NullBodyStatuses

\* new Headers(init) throws a TypeError when init is neither a sequence of
\* pairs nor a record
HeadersCtorThrows(entry) == entry.defect = "headersType"

\* Headers.get(name): the value under the name, or none
GetHeader(h, n) ==
  IF \E p \in h : p[1] = ToLowerCase(n)
  THEN (CHOOSE p \in h : p[1] = ToLowerCase(n))[2]
  ELSE ""

\* A slip of Headers.set: a value already under the name is kept
SetHeaderKeepingFirst(h, n, v) ==
  IF \E p \in h : p[1] = ToLowerCase(n) THEN h
  ELSE h \cup {<<ToLowerCase(n), v>>}

\* Headers.set(name, value): the value replaces any value under the name
SetHeader(h, n, v) ==
  {p \in h : p[1] # ToLowerCase(n)} \cup {<<ToLowerCase(n), v>>}

cacheToResponse(entry, cacheStatus) ==
  IF HeadersCtorThrows(entry) \/ ResponseCtorThrows(entry.status)
  THEN [kind |-> "throw", cacheStatus |-> "", status |-> 0, body |-> <<>>]
  ELSE [kind |-> "response",
        cacheStatus |->
          GetHeader(SetHeader(entry.headers, "X-Cache-Status", cacheStatus),
                    "X-Cache-Status"),
        status |-> entry.status, body |-> entry.data]

\* The origin response handed to the caller with X-Cache-Status: MISS
MissResponse(resp) ==
  [kind |-> "response",
   cacheStatus |->
     GetHeader(SetHeader(resp.headers, "X-Cache-Status", "MISS"),
               "X-Cache-Status"),
   status |-> resp.status, body |-> resp.body]

Rejected(why) == [kind |-> why, cacheStatus |-> "", status |-> 0, body |-> <<>>]

NoOutcome == [kind |-> "none", cacheStatus |-> "", status |-> 0, body |-> <<>>]

----------------------------------------------------------------------------
(* State *)

\* Lines 980-984: the key of a request, from its normalised body
KeyOf(r) == generateCacheKey(r, processBodyForCacheKey(r.body).chunks)

Keys == {KeyOf(r) : r \in Requests}

NoEntry ==
  [data |-> <<>>, headers |-> NoResponseHeaders, status |-> 0,
   timestamp |-> NoTime, revalidateAfter |-> NoTime, expiresAt |-> NoTime,
   tags |-> NoTags, defect |-> Sound]

\* No pure function is under examination
NoTrial == [st |-> "none"]

IdleCall ==
  [pc |-> "idle", req |-> Req("GET", "auto no cache", Unset, 0, NoBody),
   key |-> <<>>, read |-> "none", got |-> NoEntry, out |-> NoOutcome,
   fg |-> 0, fgFailed |-> FALSE, set |-> "none", bg |-> "none", bgn |-> 0,
   pending |-> NoEntry, ttl |-> 0, sent |-> NoBody]

Init ==
  /\ now = 1
  /\ ticks = 0
  /\ store = [k \in Keys |-> <<>>]
  /\ calls = [c \in Calls |-> IdleCall]
  /\ trial = NoTrial

----------------------------------------------------------------------------
(* The decisions of cachedFetch *)

\* A slip of the bypass test: revalidate 0 is not looked at
BypassesNoStoreOnly(r) == r.cache = "no-store"

\* Skip cache for no-store or revalidate: 0
Bypasses(r) == r.cache = "no-store" \/ r.revalidate = Num(0)

\* The store is read for these cache options only
ReadsStore(r) == r.cache = "force-cache" \/ r.cache = "auto no cache"

\* typeof cachedEntry.status === 'number' && cachedEntry.data !== undefined &&
\* cachedEntry.headers
PassesValidation(entry) == entry.defect \notin {"status", "data", "headers"}

\* A slip of the read: the record is not validated
UsableUnvalidated(slot) == slot # <<>> /\ ~isCacheEntryExpired(slot[1].entry)

\* The slot of the store holds a record that passes the structural checks and
\* has not expired
Usable(slot) ==
  /\ slot # <<>>
  /\ PassesValidation(slot[1].entry)
  /\ ~isCacheEntryExpired(slot[1].entry)

\* Only cache successful responses (2xx) and GET/POST/PUT requests
ShouldStore(resp, method) == IsOk(resp.status) /\ IsCacheableMethod(method)

Slot(entry, ttl) == <<[entry |-> entry, ttl |-> ttl]>>

\* A slip of the store: the set of an entry without content removes the record
StorePutClearing(key, entry, ttl) ==
  [store EXCEPT ![key] = IF entry.data = <<>> THEN <<>> ELSE Slot(entry, ttl)]

\* A slip of the store: a set keeps the status of the record it replaces
StorePutMerging(key, entry, ttl) ==
  [store EXCEPT ![key] =
     IF store[key] = <<>> THEN Slot(entry, ttl)
     ELSE Slot([entry EXCEPT !.status = store[key][1].entry.status], ttl)]

\* cache.set(key, entry, {ttl}) completing: the entry under the key is replaced
StorePut(key, entry, ttl) == [store EXCEPT ![key] = Slot(entry, ttl)]

----------------------------------------------------------------------------
(* Actions: one per step of cachedFetch between two awaits *)

\* A slip of the catch of cachedFetch: the error is passed on to the caller
CatchRethrow(call) == [call EXCEPT !.pc = "done", !.out = Rejected("storeerror")]

\* Lines 1062-1065: the catch of cachedFetch logs the error and issues the
\* fallback fetch
CatchFallback(call) == [call EXCEPT !.pc = "fallback", !.fg = @ + 1]

\* A slip of the refresh: its failure reaches the response of the call
RefreshCatchRaising(call) ==
  [call EXCEPT !.bg = "failed", !.out = Rejected("refresherror")]

\* Lines 1014-1016: the catch of backgroundRefresh logs the error; the promise
\* of the refresh resolves
RefreshCatch(call) == [call EXCEPT !.bg = "failed"]

\* A slip of the stale path: the response is held back until the refresh ends
ServeAwaitingRefresh(call, served) ==
  IF call.bg = "fetch"
  THEN [call EXCEPT !.pc = "refresh", !.out = served]
  ELSE [call EXCEPT !.pc = "done", !.out = served]

\* Lines 1019-1028: the promise of backgroundRefresh is handed to waitUntil or
\* given an empty catch, never awaited; the response built from the entry is
\* returned
Serve(call, served) == [call EXCEPT !.pc = "done", !.out = served]

\* A slip of the refresh: an answer that is not stored drops the refresh as if
\* it had never been dispatched
RefreshSkipCancelling(call) == [call EXCEPT !.bg = "none", !.bgn = 0]

\* Lines 1009-1013: the answer is not ok (or the method is not cacheable); the
\* refresh ends there, with nothing written and nothing logged
RefreshSkip(call) == [call EXCEPT !.bg = "skipped"]

\* The host without the detached-task capability: the import of line 580
\* yields no function
Bare == [st |-> "bare"]

\* Line 1020: typeof waitUntil === 'function'
WaitUntilIsFunction == trial # Bare

\* A slip of the stale path: without waitUntil no refresh is started
DispatchIfWaitUntil(call) ==
  IF WaitUntilIsFunction THEN [call EXCEPT !.bg = "fetch", !.bgn = @ + 1]
  ELSE call

\* Lines 1020-1025: on either branch backgroundRefresh() is called, which
\* issues its fetch at once; its promise goes to waitUntil or gets an empty
\* catch
Dispatch(call) == [call EXCEPT !.bg = "fetch", !.bgn = @ + 1]

\* A slip of the miss path's set: its rejection reaches the response of the call
SetSettledRaising(call, ok) ==
  [call EXCEPT !.set = IF ok THEN "ok" ELSE "failed",
               !.pending = NoEntry, !.ttl = 0,
               !.out = IF ok THEN @ ELSE Rejected("storeerror")]

\* Lines 1056-1058: the promise of the miss path's set settles; a rejection is
\* logged by its own catch
SetSettled(call, ok) ==
  [call EXCEPT !.set = IF ok THEN "ok" ELSE "failed",
               !.pending = NoEntry, !.ttl = 0]

\* Lines 951-992: the call starts, and either awaits the direct fetch (bypass),
\* is rejected by the body normaliser (lines 980-984 stand before the try), or
\* awaits cache.get.
StartCall(c, r) ==
  /\ calls[c].pc = "idle"
  /\ \A d \in Calls : d < c => calls[d].pc # "idle"
  /\ LET norm == processBodyForCacheKey(r.body) IN
     calls' = [calls EXCEPT ![c] =
       IF Bypasses(r)
       THEN [IdleCall EXCEPT !.pc = "bypass", !.req = r, !.fg = 1,
                             !.sent = r.body]
       ELSE IF norm.threw
       THEN [IdleCall EXCEPT !.pc = "done", !.req = r,
                             !.out = Rejected("bodyerror")]
       ELSE IF ReadsStore(r)
       THEN [IdleCall EXCEPT !.pc = "get", !.req = r,
                             !.key = generateCacheKey(r, norm.chunks),
                             !.sent = norm.ogBody]
       ELSE [IdleCall EXCEPT !.pc = "fetch", !.req = r, !.fg = 1,
                             !.key = generateCacheKey(r, norm.chunks),
                             !.sent = norm.ogBody]]
  /\ UNCHANGED <<now, ticks, store, trial>>

\* Lines 962-976: the direct fetch answers; its failure is the caller's.
BypassDone(c, resp) ==
  /\ calls[c].pc = "bypass"
  /\ calls' = [calls EXCEPT ![c] =
       IF resp.kind = "neterr"
       THEN [@ EXCEPT !.pc = "done", !.fgFailed = TRUE,
                      !.out = Rejected("originerror")]
       ELSE [@ EXCEPT !.pc = "done", !.out = MissResponse(resp)]]
  /\ UNCHANGED <<now, ticks, store, trial>>

\* Lines 992-1034 and 1062-1065: cache.get answers. A failed read is caught and
\* the fallback fetch issued. A usable entry is served (after the refresh of a
\* stale one is dispatched, which issues its fetch at once); if building the
\* response throws, the catch issues the fallback fetch. Otherwise the origin
\* fetch of the miss path is issued.
GetDone(c, ok) ==
  /\ calls[c].pc = "get"
  /\ LET slot == store[calls[c].key]
         isStale == needsRevalidation(slot[1].entry)
         served == cacheToResponse(slot[1].entry,
                                   IF isStale THEN "STALE" ELSE "HIT")
         found == [calls[c] EXCEPT
                     !.read = IF isStale THEN "stale" ELSE "fresh",
                     !.got = slot[1].entry]
         read == IF isStale THEN Dispatch(found) ELSE found
     IN calls' = [calls EXCEPT ![c] =
       IF ~ok
       THEN CatchFallback([@ EXCEPT !.read = "failed"])
       ELSE IF Usable(slot)
       THEN IF served.kind = "throw"
            THEN CatchFallback(read)
            ELSE Serve(read, served)
       ELSE [@ EXCEPT !.pc = "fetch", !.fg = @ + 1,
                      !.read = IF slot = <<>> THEN "absent"
                               ELSE IF ~PassesValidation(slot[1].entry)
                               THEN "malformed" ELSE "expired",
                      !.got = IF slot = <<>> THEN NoEntry ELSE slot[1].entry]]
  /\ UNCHANGED <<now, ticks, store, trial>>

\* Lines 1034-1065: the origin fetch of the miss path answers. A storable
\* response is encoded and its set dispatched, not awaited; the response is
\* returned tagged MISS. A fetch or encoding failure is caught by the catch of
\* line 1062.
FetchDone(c, resp) ==
  /\ calls[c].pc = "fetch"
  /\ LET r == calls[c].req
         entry == responseToCache(resp, r)
     IN calls' = [calls EXCEPT ![c] =
       IF resp.kind = "neterr"
       THEN CatchFallback([@ EXCEPT !.fgFailed = TRUE])
       ELSE IF ShouldStore(resp, MethodOf(r))
       THEN IF ~resp.readable
            THEN CatchFallback(@)
            ELSE [@ EXCEPT !.pc = "done", !.out = MissResponse(resp),
                           !.set = "pending", !.pending = entry,
                           !.ttl = computeTTL(entry.expiresAt)]
       ELSE [@ EXCEPT !.pc = "done", !.out = MissResponse(resp)]]
  /\ UNCHANGED <<now, ticks, store, trial>>

\* Lines 1065-1079: the fallback fetch answers; its failure is the caller's.
FallbackDone(c, resp) ==
  /\ calls[c].pc = "fallback"
  /\ calls' = [calls EXCEPT ![c] =
       IF resp.kind = "neterr"
       THEN [@ EXCEPT !.pc = "done", !.fgFailed = TRUE,
                      !.out = Rejected("originerror")]
       ELSE [@ EXCEPT !.pc = "done", !.out = MissResponse(resp)]]
  /\ UNCHANGED <<now, ticks, store, trial>>

\* Lines 1056-1058: the set of the miss path completes or fails
SetDone(c, ok) ==
  /\ calls[c].set = "pending"
  /\ calls' = [calls EXCEPT ![c] = SetSettled(@, ok)]
  /\ store' = IF ok
              THEN StorePut(calls[c].key, calls[c].pending, calls[c].ttl)
              ELSE store
  /\ UNCHANGED <<now, ticks, trial>>

\* Lines 1007-1016: the fetch of the background refresh answers
RefreshFetchDone(c, resp) ==
  /\ calls[c].bg = "fetch"
  /\ LET r == calls[c].req
         entry == responseToCache(resp, r)
     IN calls' = [calls EXCEPT ![c] =
       IF resp.kind = "neterr"
       THEN RefreshCatch(@)
       ELSE IF ShouldStore(resp, MethodOf(r))
       THEN IF ~resp.readable
            THEN RefreshCatch(@)
            ELSE [@ EXCEPT !.bg = "set", !.pending = entry,
                           !.ttl = computeTTL(entry.expiresAt)]
       ELSE RefreshSkip(@)]
  /\ UNCHANGED <<now, ticks, store, trial>>

\* Lines 1012-1016: the set of the background refresh completes or fails
RefreshSetDone(c, ok) ==
  /\ calls[c].bg = "set"
  /\ calls' = [calls EXCEPT ![c] =
       IF ok
       THEN [@ EXCEPT !.bg = "done", !.pending = NoEntry, !.ttl = 0]
       ELSE RefreshCatch([@ EXCEPT !.pending = NoEntry, !.ttl = 0])]
  /\ store' = IF ok
              THEN StorePut(calls[c].key, calls[c].pending, calls[c].ttl)
              ELSE store
  /\ UNCHANGED <<now, ticks, trial>>

\* The invocation is over: its response was returned and its detached work has
\* ended.
Settled(c) ==
  /\ calls[c].pc = "done"
  /\ calls[c].set # "pending"
  /\ calls[c].bg \notin {"fetch", "set"}

Forget(c) ==
  /\ Settled(c)
  /\ calls' = [calls EXCEPT ![c] = IdleCall]
  /\ UNCHANGED <<now, ticks, store, trial>>

----------------------------------------------------------------------------
(* The environment *)

\* The clock advances by a revalidation window or by a default expiry window:
\* an entry is then read on its deadline or past it.
TickDeltas ==
  {RevalidateN * TicksPerSec, DaySeconds * TicksPerSec,
   (DaySeconds + RevalidateN) * TicksPerSec}

Tick(d) ==
  /\ ticks < MaxTicks
  /\ now' = now + d
  /\ ticks' = ticks + 1
  /\ UNCHANGED <<store, calls, trial>>

Next ==
  \/ \E c \in Calls, r \in Requests : StartCall(c, r)
  \/ \E c \in Calls, resp \in OriginResponses : BypassDone(c, resp)
  \/ \E c \in Calls, ok \in BOOLEAN : GetDone(c, ok)
  \/ \E c \in Calls, resp \in OriginResponses : FetchDone(c, resp)
  \/ \E c \in Calls, resp \in OriginResponses : FallbackDone(c, resp)
  \/ \E c \in Calls, ok \in BOOLEAN : SetDone(c, ok)
  \/ \E c \in Calls, resp \in OriginResponses : RefreshFetchDone(c, resp)
  \/ \E c \in Calls, ok \in BOOLEAN : RefreshSetDone(c, ok)
  \/ \E c \in Calls : Forget(c)
  \/ \E d \in TickDeltas : Tick(d)

Spec == Init /\ [][Next]_vars

----------------------------------------------------------------------------
(* Key derivation, examined on pairs of requests *)

KeyBase == Req("POST", "auto no cache", Num(RevalidateN), 0, NoBody)

\* Header lists: the same two headers in both orders and in another case,
\* with trace context headers added in several places and cases, with a
\* header removed and with a value changed
HeaderLists ==
  {<<<<"a", "1">>, <<"b", "2">>>>,
   <<<<"b", "2">>, <<"a", "1">>>>,
   <<<<"A", "1">>, <<"b", "2">>>>,
   <<<<"a", "1">>, <<"b", "2">>, <<"traceparent", "t1">>>>,
   <<<<"Traceparent", "t2">>, <<"a", "1">>, <<"b", "2">>>>,
   <<<<"a", "1">>, <<"TraceState", "s1">>, <<"b", "2">>>>,
   <<<<"TRACEPARENT", "t1">>, <<"b", "2">>, <<"tracestate", "s2">>, <<"a", "1">>>>,
   <<<<"a", "1">>>>,
   <<<<"a", "2">>, <<"b", "2">>>>}

KeyHeaders ==
  {NoHeaders} \cup
  {[kind |-> k, list |-> l] : k \in {"array", "object", "Headers"},
                              l \in HeaderLists}

\* Bodies in every representation: ASCII text, bytes outside UTF-8, one
\* content chunked in two ways, form entries whose values hold the separators
\* of the serialisation, file entries, and raw buffers.
KeyBodies ==
  {NoBody, Str(<<>>), Str(<<97>>), Str(<<98>>),
   Bytes(<<97>>), Bytes(<<254>>), Bytes(<<255>>),
   Stream(<<<<97>>, <<98>>>>), Stream(<<<<97, 98>>>>), Stream(<<<<254>>>>),
   Stream(<<<<255>>>>),
   Form(<<Field(<<97>>, <<49>>), Field(<<98>>, <<50>>)>>),
   Form(<<Field(<<97>>, <<49, Comma, 98, Equals, 50>>)>>),
   Form(<<FileField(<<97>>, <<49>>)>>),
   Form(<<FileField(<<97>>, <<50>>)>>),
   Params(<<Field(<<97>>, <<49>>), Field(<<98>>, <<50>>)>>),
   Params(<<Field(<<97>>, <<49, Comma, 98, Equals, 50>>)>>),
   Params(<<Field(<<97>>, <<50>>)>>),
   Blob(<<97>>), Blob(<<254>>), Blob(<<255>>),
   Buffer(<<97>>), Buffer(<<98>>)}

KeyPrefixes == {NoPrefix, Prefix(""), Prefix("tenant-1"), Prefix("tenant-2")}

KeyRequests ==
  {WithHeaders(KeyBase, h) : h \in KeyHeaders}
    \cup {WithBody(KeyBase, b) : b \in KeyBodies}
    \cup {WithPrefix(KeyBase, p) : p \in KeyPrefixes}
    \cup {WithPrefix(WithBody(KeyBase, Str(<<97>>)), Prefix("tenant-1"))}

KeyInit ==
  /\ now = 1
  /\ ticks = 0
  /\ store = [k \in Keys |-> <<>>]
  /\ calls = [c \in Calls |-> IdleCall]
  /\ trial \in {[st |-> "requests", r1 |-> a, r2 |-> b, k1 |-> <<>>, k2 |-> <<>>] :
                  a \in KeyRequests, b \in KeyRequests}

\* Lines 980-984 applied to both requests
DeriveKeys ==
  /\ trial.st = "requests"
  /\ trial' = [trial EXCEPT !.st = "keys", !.k1 = KeyOf(trial.r1),
                            !.k2 = KeyOf(trial.r2)]
  /\ UNCHANGED <<now, ticks, store, calls>>

KeyNext == DeriveKeys

KeySpec == KeyInit /\ [][KeyNext]_vars

----------------------------------------------------------------------------
(* Requests that share a URL and differ in body or in key prefix *)

\* An origin whose answer tells the requests apart: the body names the time it
\* was served at, the request body and the key prefix it was served for.
EchoResponses(r) ==
  {Answer(200, <<now, r.body.text, r.prefix>>, TRUE, NoResponseHeaders),
   Answer(404, <<now, r.body.text, r.prefix>>, TRUE, NoResponseHeaders),
   NetErr}

\* What an answer of that origin says it was served for
EchoedBody(body) == body[2]
EchoedPrefix(body) == body[3]

\* Two POST requests with different JSON text bodies: {"q":1} and {"q":2}
JsonOne == <<LeftBrace, 34, 113, 34, 58, 49, RightBrace>>
JsonTwo == <<LeftBrace, 34, 113, 34, 58, 50, RightBrace>>

BodyRequests ==
  {Req("POST", "auto no cache", Num(RevalidateN), 0, Str(JsonOne)),
   Req("POST", "auto no cache", Num(RevalidateN), 0, Str(JsonTwo))}

BodyKeys == {KeyOf(r) : r \in BodyRequests}

BodyInit ==
  /\ now = 1
  /\ ticks = 0
  /\ store = [k \in BodyKeys |-> <<>>]
  /\ calls = [c \in Calls |-> IdleCall]
  /\ trial = NoTrial

BodyNext ==
  \/ \E c \in Calls, r \in BodyRequests : StartCall(c, r)
  \/ \E c \in Calls, ok \in BOOLEAN : GetDone(c, ok)
  \/ \E c \in Calls : \E resp \in EchoResponses(calls[c].req) : FetchDone(c, resp)
  \/ \E c \in Calls : \E resp \in EchoResponses(calls[c].req) : FallbackDone(c, resp)
  \/ \E c \in Calls, ok \in BOOLEAN : SetDone(c, ok)
  \/ \E c \in Calls : \E resp \in EchoResponses(calls[c].req) :
       RefreshFetchDone(c, resp)
  \/ \E c \in Calls, ok \in BOOLEAN : RefreshSetDone(c, ok)
  \/ \E c \in Calls : Forget(c)
  \/ \E d \in TickDeltas : Tick(d)

BodySpec == BodyInit /\ [][BodyNext]_vars

\* Requests that differ in fetchCacheKeyPrefix only: absent, empty, a tenant
PrefixRequests ==
  {WithPrefix(Req("GET", "auto no cache", Num(RevalidateN), 0, NoBody), p) :
     p \in {NoPrefix, Prefix(""), Prefix("tenant-1")}}

PrefixKeys == {KeyOf(r) : r \in PrefixRequests}

PrefixInit ==
  /\ now = 1
  /\ ticks = 0
  /\ store = [k \in PrefixKeys |-> <<>>]
  /\ calls = [c \in Calls |-> IdleCall]
  /\ trial = NoTrial

\* The clock advances by a day: an entry is then past its revalidateAt and on
\* its expiresAt
PrefixDeltas == {DaySeconds * TicksPerSec}

PrefixNext ==
  \/ \E c \in Calls, r \in PrefixRequests : StartCall(c, r)
  \/ \E c \in Calls, ok \in BOOLEAN : GetDone(c, ok)
  \/ \E c \in Calls : \E resp \in EchoResponses(calls[c].req) : FetchDone(c, resp)
  \/ \E c \in Calls : \E resp \in EchoResponses(calls[c].req) : FallbackDone(c, resp)
  \/ \E c \in Calls, ok \in BOOLEAN : SetDone(c, ok)
  \/ \E c \in Calls : \E resp \in EchoResponses(calls[c].req) :
       RefreshFetchDone(c, resp)
  \/ \E c \in Calls, ok \in BOOLEAN : RefreshSetDone(c, ok)
  \/ \E c \in Calls : Forget(c)
  \/ \E d \in PrefixDeltas : Tick(d)

PrefixSpec == PrefixInit /\ [][PrefixNext]_vars

----------------------------------------------------------------------------
(* Requests that share a key and differ in their freshness options *)

\* GET requests with revalidate and expires: a minute with the default expiry,
\* with an expiry below and above it; a window whose tenfold exceeds a day; a
\* second with an expiry below the smallest TTL; never, without and with an
\* expiry; and none.
FreshOptions ==
  {<<Num(60), 0>>, <<Num(60), 30>>, <<Num(60), 60>>, <<Num(60), 120>>,
   <<Num(10000), 0>>,
   <<Num(1), 30>>, <<Never, 0>>, <<Never, 7200>>, <<Unset, 0>>}

FreshRequests ==
  {Req("GET", "auto no cache", o[1], o[2], NoBody) : o \in FreshOptions}

\* The clock advances to a deadline of these requests or one tick past it
FreshSeconds == {60, 120, DaySeconds, YearDays * DaySeconds}

FreshDeltas == {s * TicksPerSec + e : s \in FreshSeconds, e \in {0, 1}}

\* One invocation at a time
FreshCalls == {1}

FreshNext ==
  \/ \E c \in FreshCalls, r \in FreshRequests : StartCall(c, r)
  \/ \E c \in FreshCalls, ok \in BOOLEAN : GetDone(c, ok)
  \/ \E c \in FreshCalls, resp \in OriginResponses : FetchDone(c, resp)
  \/ \E c \in FreshCalls, resp \in OriginResponses : FallbackDone(c, resp)
  \/ \E c \in FreshCalls, ok \in BOOLEAN : SetDone(c, ok)
  \/ \E c \in FreshCalls, resp \in OriginResponses : RefreshFetchDone(c, resp)
  \/ \E c \in FreshCalls, ok \in BOOLEAN : RefreshSetDone(c, ok)
  \/ \E c \in FreshCalls : Forget(c)
  \/ \E d \in FreshDeltas : Tick(d)

FreshSpec == Init /\ [][FreshNext]_vars

----------------------------------------------------------------------------
(* Requests that share a key and give no revalidate option, or one that is   *)
(* neither false nor 0 nor a positive number                                 *)

UnsetOptions ==
  {<<Unset, 0>>, <<Unset, 7200>>, <<Num(-5), 0>>, <<Num(-5), 7200>>,
   <<Num(60), 0>>}

UnsetRequests ==
  {Req("GET", "auto no cache", o[1], o[2], NoBody) : o \in UnsetOptions}

UnsetNext ==
  \/ \E c \in FreshCalls, r \in UnsetRequests : StartCall(c, r)
  \/ \E c \in FreshCalls, ok \in BOOLEAN : GetDone(c, ok)
  \/ \E c \in FreshCalls, resp \in OriginResponses : FetchDone(c, resp)
  \/ \E c \in FreshCalls, resp \in OriginResponses : FallbackDone(c, resp)
  \/ \E c \in FreshCalls, ok \in BOOLEAN : SetDone(c, ok)
  \/ \E c \in FreshCalls, resp \in OriginResponses : RefreshFetchDone(c, resp)
  \/ \E c \in FreshCalls, ok \in BOOLEAN : RefreshSetDone(c, ok)
  \/ \E c \in FreshCalls : Forget(c)
  \/ \E d \in FreshDeltas : Tick(d)

UnsetSpec == Init /\ [][UnsetNext]_vars

----------------------------------------------------------------------------
(* Requests that differ in nothing but revalidate and expires, each reading  *)
(* what another has written                                                  *)

ShareOptions ==
  {<<Num(60), 0>>, <<Num(60), 120>>, <<Num(10000), 0>>, <<Never, 0>>,
   <<Never, 7200>>}

ShareRequests ==
  {Req("GET", "auto no cache", o[1], o[2], NoBody) : o \in ShareOptions}

ShareKeys == {KeyOf(r) : r \in ShareRequests}

ShareInit ==
  /\ now = 1
  /\ ticks = 0
  /\ store = [k \in ShareKeys |-> <<>>]
  /\ calls = [c \in Calls |-> IdleCall]
  /\ trial = NoTrial

ShareNext ==
  \/ \E c \in FreshCalls, r \in ShareRequests : StartCall(c, r)
  \/ \E c \in FreshCalls, ok \in BOOLEAN : GetDone(c, ok)
  \/ \E c \in FreshCalls, resp \in OriginResponses : FetchDone(c, resp)
  \/ \E c \in FreshCalls, resp \in OriginResponses : FallbackDone(c, resp)
  \/ \E c \in FreshCalls, ok \in BOOLEAN : SetDone(c, ok)
  \/ \E c \in FreshCalls, resp \in OriginResponses : RefreshFetchDone(c, resp)
  \/ \E c \in FreshCalls, ok \in BOOLEAN : RefreshSetDone(c, ok)
  \/ \E c \in FreshCalls : Forget(c)
  \/ \E d \in FreshDeltas : Tick(d)

ShareSpec == ShareInit /\ [][ShareNext]_vars

----------------------------------------------------------------------------
(* Two requests that differ in the cache mode only, one invocation at a time *)

ModeRequests ==
  {Req("GET", "force-cache", Num(RevalidateN), 0, NoBody),
   Req("GET", "auto no cache", Num(RevalidateN), 0, NoBody)}

ModeKeys == {KeyOf(r) : r \in ModeRequests}

ModeInit ==
  /\ now = 1
  /\ ticks = 0
  /\ store = [k \in ModeKeys |-> <<>>]
  /\ calls = [c \in Calls |-> IdleCall]
  /\ trial = NoTrial

ModeNext ==
  \/ \E c \in FreshCalls, r \in ModeRequests : StartCall(c, r)
  \/ \E c \in FreshCalls, ok \in BOOLEAN : GetDone(c, ok)
  \/ \E c \in FreshCalls, resp \in OriginResponses : FetchDone(c, resp)
  \/ \E c \in FreshCalls, resp \in OriginResponses : FallbackDone(c, resp)
  \/ \E c \in FreshCalls, ok \in BOOLEAN : SetDone(c, ok)
  \/ \E c \in FreshCalls, resp \in OriginResponses : RefreshFetchDone(c, resp)
  \/ \E c \in FreshCalls, ok \in BOOLEAN : RefreshSetDone(c, ok)
  \/ \E c \in FreshCalls : Forget(c)
  \/ \E d \in TickDeltas : Tick(d)

ModeSpec == ModeInit /\ [][ModeNext]_vars

----------------------------------------------------------------------------
(* The entry encoding, examined on single responses *)

\* Body bytes: an ASCII letter and two bytes that are not UTF-8
CodecBytes == {65, 254, 255}

CodecBodies == UNION {[1..n -> CodecBytes] : n \in 0..MaxBodyLen}

CodecContentTypes ==
  {<<"text/", "plain">>, <<"application/", "json">>,
   <<"Application/", "JSON">>, <<"application/", "json", ";", "charset=utf-8">>,
   <<"application/", "json", "-seq">>, <<"application/", "xml", "-dtd">>,
   <<"application/", "ld+json">>, <<"application/", "octet-stream">>,
   <<"image/", "svg+xml">>, <<"image/", "png">>, <<>>}

\* The responses the encoder is given: every one is ok (2xx)
CodecResponses ==
  {r \in [status : {200, 204}, statusText : {"OK", ""},
          contentType : CodecContentTypes, body : CodecBodies] :
     r.status \in NullBodyStatuses => r.body = <<>>}

CodecInit ==
  /\ now = 1
  /\ ticks = 0
  /\ store = [k \in Keys |-> <<>>]
  /\ calls = [c \in Calls |-> IdleCall]
  /\ trial \in {[st |-> "response", response |-> r, entry |-> <<>>,
                 decoded |-> <<>>] : r \in CodecResponses}

\* Lines 799-847: responseToCache, as far as the response itself goes
EncodeResponse ==
  /\ trial.st = "response"
  /\ LET r == trial.response
         enc == EncodeBody(r.contentType, r.body)
     IN trial' = [trial EXCEPT !.st = "entry",
                    !.entry = [data |-> enc.data, isBinary |-> enc.isBinary,
                               status |-> r.status, statusText |-> r.statusText,
                               contentType |-> r.contentType]]
  /\ UNCHANGED <<now, ticks, store, calls>>

\* Lines 871-883: cacheToResponse, as far as the response itself goes
DecodeEntry ==
  /\ trial.st = "entry"
  /\ LET e == trial.entry IN
     trial' = [trial EXCEPT !.st = "decoded",
                 !.decoded =
                   IF ResponseCtorThrows(e.status)
                   THEN [threw |-> TRUE, status |-> 0, statusText |-> "",
                         body |-> <<>>]
                   ELSE [threw |-> FALSE, status |-> e.status,
                         statusText |-> e.statusText,
                         body |-> DecodeBody(e.data, e.isBinary)]]
  /\ UNCHANGED <<now, ticks, store, calls>>

CodecNext == EncodeResponse \/ DecodeEntry

CodecSpec == CodecInit /\ [][CodecNext]_vars

----------------------------------------------------------------------------
(* Reads of records another writer of the store left malformed, and origins *)
(* that send a cache status of their own                                    *)

\* The header an origin (a cache in front of it) may send
OriginCacheStatus == {<<"x-cache-status", "HIT">>}

ReadResponses ==
  {Answer(200, <<now>>, rd, h) :
      rd \in BOOLEAN, h \in {NoResponseHeaders, OriginCacheStatus}}
    \cup {Answer(204, <<>>, TRUE, OriginCacheStatus),
          Answer(404, <<now>>, TRUE, OriginCacheStatus),
          NetErr}

ReadRequests ==
  {Req("GET", "auto no cache", Num(RevalidateN), 0, NoBody),
   Req("GET", "no-store", Unset, 0, NoBody)}

\* The record under a key comes back without one of its fields, or with
\* headers of another type: the store is shared and holds what its last writer
\* put there.
Corrupt(k, d) ==
  /\ store[k] # <<>>
  /\ store[k][1].entry.defect = Sound
  /\ store' = [store EXCEPT ![k] =
       Slot([store[k][1].entry EXCEPT !.defect = d], store[k][1].ttl)]
  /\ UNCHANGED <<now, ticks, calls, trial>>

ReadNext ==
  \/ \E c \in FreshCalls, r \in ReadRequests : StartCall(c, r)
  \/ \E c \in FreshCalls, resp \in ReadResponses : BypassDone(c, resp)
  \/ \E c \in FreshCalls, ok \in BOOLEAN : GetDone(c, ok)
  \/ \E c \in FreshCalls, resp \in ReadResponses : FetchDone(c, resp)
  \/ \E c \in FreshCalls, resp \in ReadResponses : FallbackDone(c, resp)
  \/ \E c \in FreshCalls, ok \in BOOLEAN : SetDone(c, ok)
  \/ \E c \in FreshCalls, resp \in ReadResponses : RefreshFetchDone(c, resp)
  \/ \E c \in FreshCalls, ok \in BOOLEAN : RefreshSetDone(c, ok)
  \/ \E c \in FreshCalls : Forget(c)
  \/ \E k \in Keys, d \in Defects : Corrupt(k, d)
  \/ \E d \in TickDeltas : Tick(d)

ReadSpec == Init /\ [][ReadNext]_vars

----------------------------------------------------------------------------
(* Requests that differ in their method, against a store other writers use *)

Methods == {NoMethod, "post", "DELETE", "patch"}

MethodRequests ==
  {Req(m, "auto no cache", Num(RevalidateN), 0, NoBody) : m \in Methods}

MethodKeys == {KeyOf(r) : r \in MethodRequests}

MethodInit ==
  /\ now = 1
  /\ ticks = 0
  /\ store = [k \in MethodKeys |-> <<>>]
  /\ calls = [c \in Calls |-> IdleCall]
  /\ trial = NoTrial

\* Another writer of the shared store puts an entry under a key cachedFetch
\* does not write under
Seed(k, r) ==
  /\ store[k] = <<>>
  /\ KeyOf(r) = k
  /\ ~IsCacheableMethod(MethodOf(r))
  /\ store' = [store EXCEPT ![k] =
       Slot(responseToCache(Answer(200, <<now>>, TRUE, NoResponseHeaders), r),
            DaySeconds)]
  /\ UNCHANGED <<now, ticks, calls, trial>>

MethodNext ==
  \/ \E c \in FreshCalls, r \in MethodRequests : StartCall(c, r)
  \/ \E c \in FreshCalls, ok \in BOOLEAN : GetDone(c, ok)
  \/ \E c \in FreshCalls, resp \in OriginResponses : FetchDone(c, resp)
  \/ \E c \in FreshCalls, resp \in OriginResponses : FallbackDone(c, resp)
  \/ \E c \in FreshCalls, ok \in BOOLEAN : SetDone(c, ok)
  \/ \E c \in FreshCalls, resp \in OriginResponses : RefreshFetchDone(c, resp)
  \/ \E c \in FreshCalls, ok \in BOOLEAN : RefreshSetDone(c, ok)
  \/ \E c \in FreshCalls : Forget(c)
  \/ \E k \in MethodKeys, r \in MethodRequests : Seed(k, r)
  \/ \E d \in TickDeltas : Tick(d)

MethodSpec == MethodInit /\ [][MethodNext]_vars

----------------------------------------------------------------------------
(* Requests whose body is a stream, a byte array or a blob, and an origin   *)
(* that answers with the body it received                                   *)

LetterA == 65
LetterB == 66
NotUtf8 == 255

SendBodies ==
  {Stream(<<<<LetterA>>, <<LetterB>>>>), Bytes(<<LetterA, NotUtf8>>),
   Blob(<<LetterB>>), Str(<<LetterA>>)}

SendRequests ==
  {Req("POST", "auto no cache", Num(RevalidateN), 0, b) : b \in SendBodies}
    \cup {Req("POST", "no-store", Unset, 0, Stream(<<<<LetterA>>>>))}

SendKeys == {KeyOf(r) : r \in SendRequests}

SendInit ==
  /\ now = 1
  /\ ticks = 0
  /\ store = [k \in SendKeys |-> <<>>]
  /\ calls = [c \in Calls |-> IdleCall]
  /\ trial = NoTrial

\* The body the transport reads when it is handed the body of the call: the
\* bytes of a byte array, of a blob or of a string, the chunks of a stream
BodyBytes(body) ==
  IF body.kind \in {"stream", "badstream"} THEN Concat(body.chunks)
  ELSE body.text

\* fetch(input, cleanOptions) of a call: a stream that has been read to its
\* end cannot be sent, and fetch rejects with a TypeError; otherwise the
\* origin answers with the bytes it received, or the transport fails.
SendResponses(call) ==
  IF call.sent.kind \in {"stream", "badstream"} /\ ~Bypasses(call.req)
  THEN {NetErr}
  ELSE {Answer(200, <<now, BodyBytes(call.sent)>>, TRUE, NoResponseHeaders),
        Answer(404, <<now, BodyBytes(call.sent)>>, TRUE, NoResponseHeaders),
        NetErr}

SendNext ==
  \/ \E c \in FreshCalls, r \in SendRequests : StartCall(c, r)
  \/ \E c \in FreshCalls : \E resp \in SendResponses(calls[c]) :
       BypassDone(c, resp)
  \/ \E c \in FreshCalls, ok \in BOOLEAN : GetDone(c, ok)
  \/ \E c \in FreshCalls : \E resp \in SendResponses(calls[c]) :
       FetchDone(c, resp)
  \/ \E c \in FreshCalls : \E resp \in SendResponses(calls[c]) :
       FallbackDone(c, resp)
  \/ \E c \in FreshCalls, ok \in BOOLEAN : SetDone(c, ok)
  \/ \E c \in FreshCalls : \E resp \in SendResponses(calls[c]) :
       RefreshFetchDone(c, resp)
  \/ \E c \in FreshCalls, ok \in BOOLEAN : RefreshSetDone(c, ok)
  \/ \E c \in FreshCalls : Forget(c)
  \/ \E d \in TickDeltas : Tick(d)

SendSpec == SendInit /\ [][SendNext]_vars

----------------------------------------------------------------------------
(* Requests that differ in their tags only *)

TagSets == {NoTags, <<"news">>, <<"news", "sport">>}

TagRequests ==
  {WithTags(Req("GET", "auto no cache", Num(RevalidateN), 0, NoBody), t) :
     t \in TagSets}

TagKeys == {KeyOf(r) : r \in TagRequests}

TagInit ==
  /\ now = 1
  /\ ticks = 0
  /\ store = [k \in TagKeys |-> <<>>]
  /\ calls = [c \in Calls |-> IdleCall]
  /\ trial = NoTrial

TagNext ==
  \/ \E c \in FreshCalls, r \in TagRequests : StartCall(c, r)
  \/ \E c \in FreshCalls, ok \in BOOLEAN : GetDone(c, ok)
  \/ \E c \in FreshCalls, resp \in OriginResponses : FetchDone(c, resp)
  \/ \E c \in FreshCalls, resp \in OriginResponses : FallbackDone(c, resp)
  \/ \E c \in FreshCalls, ok \in BOOLEAN : SetDone(c, ok)
  \/ \E c \in FreshCalls, resp \in OriginResponses : RefreshFetchDone(c, resp)
  \/ \E c \in FreshCalls, ok \in BOOLEAN : RefreshSetDone(c, ok)
  \/ \E c \in FreshCalls : Forget(c)
  \/ \E d \in TickDeltas : Tick(d)

TagSpec == TagInit /\ [][TagNext]_vars

----------------------------------------------------------------------------
(* Detached work under a host that keeps it alive and a transport and a     *)
(* store that answer: each invocation is followed to its end                *)

LiveRequests == {Req("GET", "auto no cache", Num(RevalidateN), 0, NoBody)}

LiveNext ==
  \/ \E c \in Calls, r \in LiveRequests : StartCall(c, r)
  \/ \E c \in Calls, ok \in BOOLEAN : GetDone(c, ok)
  \/ \E c \in Calls, resp \in OriginResponses : FetchDone(c, resp)
  \/ \E c \in Calls, resp \in OriginResponses : FallbackDone(c, resp)
  \/ \E c \in Calls, ok \in BOOLEAN : SetDone(c, ok)
  \/ \E c \in Calls, resp \in OriginResponses : RefreshFetchDone(c, resp)
  \/ \E c \in Calls, ok \in BOOLEAN : RefreshSetDone(c, ok)
  \/ \E d \in TickDeltas : Tick(d)

\* waitUntil keeps the refresh alive; the fetch of the refresh is answered and
\* its set settles
LiveFairness ==
  \A c \in Calls :
    /\ WF_vars(\E resp \in OriginResponses : RefreshFetchDone(c, resp))
    /\ WF_vars(\E ok \in BOOLEAN : RefreshSetDone(c, ok))

LiveSpec == Init /\ [][LiveNext]_vars /\ LiveFairness

----------------------------------------------------------------------------
(* Detached work under a host with or without waitUntil: without it nothing *)
(* keeps a refresh alive once the response has been returned                *)

HostRequests == {Req("GET", "auto no cache", Num(RevalidateN), 0, NoBody)}

HostInit ==
  /\ now = 1
  /\ ticks = 0
  /\ store = [k \in Keys |-> <<>>]
  /\ calls = [c \in Calls |-> IdleCall]
  /\ trial \in {NoTrial, Bare}

\* Lines 1022-1024: the promise of the refresh is held by nothing but its
\* empty catch; the host ends the invocation after the response and the
\* refresh is abandoned where it stands
Abandon(c) ==
  /\ ~WaitUntilIsFunction
  /\ calls[c].pc = "done"
  /\ calls[c].bg \in {"fetch", "set"}
  /\ calls' = [calls EXCEPT ![c] =
       [@ EXCEPT !.bg = "abandoned", !.pending = NoEntry, !.ttl = 0]]
  /\ UNCHANGED <<now, ticks, store, trial>>

HostNext ==
  \/ \E c \in Calls, r \in HostRequests : StartCall(c, r)
  \/ \E c \in Calls, ok \in BOOLEAN : GetDone(c, ok)
  \/ \E c \in Calls, resp \in OriginResponses : FetchDone(c, resp)
  \/ \E c \in Calls, resp \in OriginResponses : FallbackDone(c, resp)
  \/ \E c \in Calls, ok \in BOOLEAN : SetDone(c, ok)
  \/ \E c \in Calls, resp \in OriginResponses : RefreshFetchDone(c, resp)
  \/ \E c \in Calls, ok \in BOOLEAN : RefreshSetDone(c, ok)
  \/ \E c \in Calls : Abandon(c)
  \/ \E c \in Calls : Forget(c)
  \/ \E d \in TickDeltas : Tick(d)

HostSpec == HostInit /\ [][HostNext]_vars

----------------------------------------------------------------------------
(* Claims *)

Returned(c) == calls[c].pc = "done" /\ calls[c].out.kind = "response"

CachedGet == Req("GET", "auto no cache", Num(RevalidateN), 0, NoBody)

\* C1: a call that reads an entry past its revalidateAt and not past its
\* expiresAt has returned, at that same step, the entry's status and body
\* tagged STALE, with no foreground fetch and exactly one refresh fetch issued.
C1_StaleServedWithOneRefresh ==
  \A c \in Calls :
    calls[c].read = "stale" =>
      /\ calls[c].pc = "done"
      /\ calls[c].out = [kind |-> "response", cacheStatus |-> "STALE",
                         status |-> calls[c].got.status,
                         body |-> calls[c].got.data]
      /\ calls[c].fg = 0
      /\ calls[c].bgn = 1

\* C1 holds of every stale entry whose status admits a body: the failure is
\* confined to the null-body statuses.
C1_HoldsUnlessNullBodyStatus ==
  \A c \in Calls :
    (calls[c].read = "stale" /\ calls[c].got.status \notin NullBodyStatuses) =>
      /\ calls[c].pc = "done"
      /\ calls[c].out = [kind |-> "response", cacheStatus |-> "STALE",
                         status |-> calls[c].got.status,
                         body |-> calls[c].got.data]
      /\ calls[c].fg = 0
      /\ calls[c].bgn = 1

\* C2: when the GET with revalidate 3600 reads the store and finds an entry
\* stored no more than 3600 seconds ago, the call returns at that step, tagged
\* HIT, having issued no origin fetch.
C2_HitWithinRevalidate ==
  [][\A c \in Calls :
       ( /\ calls[c].pc = "get"
         /\ calls'[c].pc # "get"
         /\ calls'[c].read # "failed"
         /\ calls[c].req = CachedGet
         /\ store[calls[c].key] # <<>>
         /\ now <= store[calls[c].key][1].entry.timestamp
                     + RevalidateN * TicksPerSec )
       => ( /\ calls'[c].pc = "done"
            /\ calls'[c].out.kind = "response"
            /\ calls'[c].out.cacheStatus = "HIT"
            /\ calls'[c].fg = 0
            /\ calls'[c].bgn = 0 )]_vars

\* C2 holds of every entry whose status admits a body.
C2_HoldsUnlessNullBodyStatus ==
  [][\A c \in Calls :
       ( /\ calls[c].pc = "get"
         /\ calls'[c].pc # "get"
         /\ calls'[c].read # "failed"
         /\ calls[c].req = CachedGet
         /\ store[calls[c].key] # <<>>
         /\ store[calls[c].key][1].entry.status \notin NullBodyStatuses
         /\ now <= store[calls[c].key][1].entry.timestamp
                     + RevalidateN * TicksPerSec )
       => ( /\ calls'[c].pc = "done"
            /\ calls'[c].out.kind = "response"
            /\ calls'[c].out.cacheStatus = "HIT"
            /\ calls'[c].out.body = store[calls[c].key][1].entry.data
            /\ calls'[c].fg = 0
            /\ calls'[c].bgn = 0 )]_vars

\* C3: a call that reads an expired entry never serves it (no HIT, no STALE,
\* no refresh), issues an origin fetch, returns the origin response tagged
\* MISS, and has dispatched a set under its key when that response is a 2xx
\* to a cacheable method.
C3_ExpiredTreatedAsAbsent ==
  \A c \in Calls :
    calls[c].read = "expired" =>
      /\ calls[c].out.cacheStatus \notin {"HIT", "STALE"}
      /\ calls[c].bgn = 0
      /\ calls[c].fg >= 1
      /\ Returned(c) =>
           /\ calls[c].out.cacheStatus = "MISS"
           /\ ( /\ calls[c].out.status \in 200..299
                /\ MethodOf(calls[c].req) \in {"GET", "POST", "PUT"} )
              => calls[c].set # "none"

\* C3 holds of every call that did not enter the catch of line 1062 (one
\* foreground fetch).
C3_HoldsUnlessCatchEntered ==
  \A c \in Calls :
    (calls[c].read = "expired" /\ calls[c].fg < 2) =>
      /\ calls[c].out.cacheStatus \notin {"HIT", "STALE"}
      /\ calls[c].bgn = 0
      /\ calls[c].fg = 1
      /\ Returned(c) =>
           /\ calls[c].out.cacheStatus = "MISS"
           /\ ( /\ calls[c].out.status \in 200..299
                /\ MethodOf(calls[c].req) \in {"GET", "POST", "PUT"} )
              => /\ calls[c].set # "none"
                 /\ calls[c].set = "pending" =>
                      /\ calls[c].pending.data = calls[c].out.body
                      /\ calls[c].pending.timestamp > calls[c].got.expiresAt

\* C4: every entry in the store, and every entry handed to a set on the miss
\* path or the refresh path, has a 2xx status.
C4_OnlyOkResponsesStored ==
  /\ \A k \in Keys : store[k] # <<>> => store[k][1].entry.status \in 200..299
  /\ \A c \in Calls :
       (calls[c].set = "pending" \/ calls[c].bg = "set")
         => calls[c].pending.status \in 200..299

\* C4 witness: an entry is stored while a refresh that met a non-2xx answer
\* has ended without a write and a miss has returned a non-2xx answer.
C4_Witness ==
  \E c, d \in Calls :
    /\ calls[c].bg = "skipped"
    /\ store[calls[c].key] # <<>>
    /\ Returned(d) /\ calls[d].out.status = 404 /\ calls[d].read = "absent"
    /\ calls[d].req = CachedGet

\* C5: a request with cache 'no-store' or revalidate 0 has derived no key,
\* issued no get, dispatched no set and no refresh, issued exactly one origin
\* fetch, and a response it returns is tagged MISS.
C5_BypassNeverTouchesStore ==
  \A c \in Calls :
    ( /\ calls[c].pc # "idle"
      /\ (calls[c].req.cache = "no-store" \/ calls[c].req.revalidate = Num(0)) )
    => /\ calls[c].key = <<>>
       /\ calls[c].read = "none"
       /\ calls[c].set = "none"
       /\ calls[c].bg = "none"
       /\ calls[c].fg = 1
       /\ Returned(c) => calls[c].out.cacheStatus = "MISS"

\* C5 witness: a no-store call and a revalidate-0 call have both returned MISS
\* while the store holds an entry they could have been served.
C5_Witness ==
  \E c, d \in Calls :
    /\ Returned(c) /\ calls[c].req.cache = "no-store"
    /\ Returned(d) /\ calls[d].req.revalidate = Num(0)
    /\ \E k \in Keys : store[k] # <<>>

\* C6: a response returned tagged STALE is never changed afterwards, whatever
\* becomes of the refresh (the slot is only emptied once the call has settled).
C6_RefreshFailureSwallowed ==
  [][\A c \in Calls :
       (Returned(c) /\ calls[c].out.cacheStatus = "STALE")
         => \/ calls'[c].out = calls[c].out /\ calls'[c].pc = "done"
            \/ Settled(c) /\ calls'[c] = IdleCall]_vars

\* C6 witness: a call has returned STALE and its refresh has failed.
C6_Witness ==
  \E c \in Calls :
    /\ Returned(c) /\ calls[c].out.cacheStatus = "STALE"
    /\ calls[c].bg = "failed"

\* C7: a call on the miss or expired path whose origin fetch failed ends with
\* that failure raised to the caller.
C7_OriginFailureSurfaced ==
  \A c \in Calls :
    ( /\ calls[c].pc = "done"
      /\ calls[c].read \in {"absent", "expired"}
      /\ calls[c].fgFailed )
    => calls[c].out.kind = "originerror"

\* C8: a call whose body stream errors while it is drained ends with an origin
\* response tagged MISS, not with an exception.
C8_NormalizationFailureFallsBack ==
  \A c \in Calls :
    (calls[c].pc = "done" /\ calls[c].req.body.kind = "badstream")
      => Returned(c) /\ calls[c].out.cacheStatus = "MISS"

\* C9: a call whose store read failed issues the fallback fetch and nothing
\* else: no set and no refresh is dispatched, and it ends with the origin
\* response tagged MISS or with the origin's own failure, never with the
\* store's.
C9_StoreReadFailureRecovered ==
  \A c \in Calls :
    calls[c].read = "failed" =>
      /\ calls[c].pc \in {"fallback", "done"}
      /\ calls[c].fg = 1
      /\ calls[c].set = "none"
      /\ calls[c].bg = "none"
      /\ calls[c].pending = NoEntry
      /\ calls[c].pc = "done" =>
           \/ Returned(c) /\ calls[c].out.cacheStatus = "MISS"
           \/ calls[c].out.kind = "originerror" /\ calls[c].fgFailed

\* C9 witness: a call whose store read failed has returned the origin response
\* tagged MISS.
C9_Witness ==
  \E c \in Calls :
    /\ calls[c].read = "failed"
    /\ Returned(c) /\ calls[c].out.cacheStatus = "MISS"
    /\ calls[c].out.status = 200

\* C10: whenever the miss path's set is in flight, has completed or has
\* failed, the call has already returned the 2xx origin response tagged MISS.
C10_MissSetFireAndForget ==
  \A c \in Calls :
    calls[c].set # "none" =>
      /\ Returned(c)
      /\ calls[c].out.cacheStatus = "MISS"
      /\ calls[c].out.status \in 200..299
      /\ calls[c].fg = 1
      /\ calls[c].set = "pending" =>
           /\ calls[c].out.status = calls[c].pending.status
           /\ calls[c].out.body = calls[c].pending.data

\* C10 witness: one call has returned while its set is still in flight, and
\* another has returned and its set has failed.
C10_Witness ==
  \E c, d \in Calls :
    /\ calls[c].set = "pending" /\ Returned(c)
    /\ calls[d].set = "failed" /\ Returned(d)

\* The header set of a request: its (lowercased name, value) pairs, the trace
\* context headers left out
HeaderSet(h) ==
  {<<ToLowerCase(h.list[i][1]), h.list[i][2]>> : i \in
     {j \in 1..Len(h.list) :
        ToLowerCase(h.list[j][1]) \notin {"traceparent", "tracestate"}}}

\* The two requests agree on everything but their headers
SameButHeaders(a, b) == WithHeaders(a, NoHeaders) = WithHeaders(b, NoHeaders)

\* The two requests agree on everything but their bodies
SameButBody(a, b) == WithBody(a, NoBody) = WithBody(b, NoBody)

\* The content of a body: that of a stream is its chunks put together
BodyContent(b) == IF b.kind = "stream" THEN Concat(b.chunks) ELSE b

\* C11: two requests that agree on URL, method, transport options, prefix and
\* body, and whose header sets are equal once the trace context headers are
\* left out, derive equal keys.
C11_EqualComponentsEqualKeys ==
  ( /\ trial.st = "keys"
    /\ SameButHeaders(trial.r1, trial.r2)
    /\ HeaderSet(trial.r1.headers) = HeaderSet(trial.r2.headers) )
  => trial.k1 = trial.k2

\* The header list of a request as written, the trace context headers left out
RECURSIVE WithoutTrace(_)
WithoutTrace(list) ==
  IF list = <<>> THEN <<>>
  ELSE (IF ToLowerCase(Head(list)[1]) \in {"traceparent", "tracestate"}
        THEN <<>>
        ELSE <<<<ToLowerCase(Head(list)[1]), Head(list)[2]>>>>)
         \o WithoutTrace(Tail(list))

\* C11 holds of requests whose headers are written in the same order (both as
\* Headers instances or neither): adding, removing or changing a trace context
\* header, in any case, keeps the key.
C11_HoldsForSameHeaderOrder ==
  ( /\ trial.st = "keys"
    /\ SameButHeaders(trial.r1, trial.r2)
    /\ (trial.r1.headers.kind = "Headers") = (trial.r2.headers.kind = "Headers")
    /\ WithoutTrace(trial.r1.headers.list) = WithoutTrace(trial.r2.headers.list) )
  => trial.k1 = trial.k2

\* C12: two requests that differ only in the order their headers are written
\* in, as an array of pairs or as a plain object, derive equal keys.
C12_HeaderOrderIrrelevant ==
  ( /\ trial.st = "keys"
    /\ SameButHeaders(trial.r1, trial.r2)
    /\ trial.r1.headers.kind \in {"array", "object"}
    /\ trial.r2.headers.kind \in {"array", "object"}
    /\ HeaderSet(trial.r1.headers) = HeaderSet(trial.r2.headers) )
  => trial.k1 = trial.k2

\* C12 holds of headers passed as Headers instances, which iterate sorted.
C12_HoldsForHeadersInstances ==
  ( /\ trial.st = "keys"
    /\ SameButHeaders(trial.r1, trial.r2)
    /\ trial.r1.headers.kind = "Headers"
    /\ trial.r2.headers.kind = "Headers"
    /\ HeaderSet(trial.r1.headers) = HeaderSet(trial.r2.headers) )
  => trial.k1 = trial.k2

\* C13: two requests that differ only in the content of their bodies, both in
\* the same representation, derive different keys.
C13_DistinctBodiesDistinctKeys ==
  ( /\ trial.st = "keys"
    /\ SameButBody(trial.r1, trial.r2)
    /\ trial.r1.body.kind = trial.r2.body.kind
    /\ BodyContent(trial.r1.body) # BodyContent(trial.r2.body) )
  => trial.k1 # trial.k2

\* C13 holds of bodies given as strings.
C13_HoldsForStrings ==
  ( /\ trial.st = "keys"
    /\ SameButBody(trial.r1, trial.r2)
    /\ trial.r1.body.kind = "string"
    /\ trial.r2.body.kind = "string"
    /\ trial.r1.body # trial.r2.body )
  => trial.k1 # trial.k2

\* C14: the two POST requests have different keys; the entry under the key of
\* a body, every entry a call for that body reads or writes, and every
\* response returned to it, was served by the origin for that body.
C14_DistinctBodiesDistinctEntries ==
  /\ \A a, b \in BodyRequests : a # b => KeyOf(a) # KeyOf(b)
  /\ \A r \in BodyRequests :
       store[KeyOf(r)] # <<>>
         => EchoedBody(store[KeyOf(r)][1].entry.data) = r.body.text
  /\ \A c \in Calls :
       /\ Returned(c) => EchoedBody(calls[c].out.body) = calls[c].req.body.text
       /\ calls[c].read \in {"fresh", "stale", "expired"}
            => EchoedBody(calls[c].got.data) = calls[c].req.body.text
       /\ (calls[c].set = "pending" \/ calls[c].bg = "set")
            => EchoedBody(calls[c].pending.data) = calls[c].req.body.text

\* C14 witness: both bodies have an entry, a call for one body has been served
\* from its entry while a call for the other body is refreshing its own.
C14_Witness ==
  /\ \A r \in BodyRequests : store[KeyOf(r)] # <<>>
  /\ \E c, d \in Calls :
       /\ Returned(c) /\ calls[c].out.cacheStatus \in {"HIT", "STALE"}
       /\ calls[c].req.body.text = JsonOne
       /\ Returned(d) /\ calls[d].out.cacheStatus = "STALE"
       /\ calls[d].bg = "set"
       /\ calls[d].req.body.text = JsonTwo

\* The namespace of a prefix: an absent prefix is the empty one
Namespace(p) == IF p.given THEN p.text ELSE ""

\* C15: two requests that differ in prefix only have the same key exactly when
\* their namespaces are the same; the entry under the key of a prefix, every
\* entry a call reads or writes, and every response returned to it, was
\* served by the origin for the namespace of the call.
C15_PrefixNamespacesDisjoint ==
  /\ \A a, b \in PrefixRequests :
       (KeyOf(a) = KeyOf(b)) <=> (Namespace(a.prefix) = Namespace(b.prefix))
  /\ \A r \in PrefixRequests :
       store[KeyOf(r)] # <<>>
         => Namespace(EchoedPrefix(store[KeyOf(r)][1].entry.data))
              = Namespace(r.prefix)
  /\ \A c \in Calls :
       /\ Returned(c)
            => Namespace(EchoedPrefix(calls[c].out.body))
                 = Namespace(calls[c].req.prefix)
       /\ calls[c].read \in {"fresh", "stale", "expired"}
            => Namespace(EchoedPrefix(calls[c].got.data))
                 = Namespace(calls[c].req.prefix)
       /\ (calls[c].set = "pending" \/ calls[c].bg = "set")
            => Namespace(EchoedPrefix(calls[c].pending.data))
                 = Namespace(calls[c].req.prefix)

\* C15 witness: a call without a prefix has been served the entry a call with
\* the empty prefix stored, while the tenant's namespace holds its own entry.
C15_Witness ==
  /\ \A r \in PrefixRequests : store[KeyOf(r)] # <<>>
  /\ \E c \in Calls :
       /\ Returned(c) /\ calls[c].out.cacheStatus \in {"HIT", "STALE"}
       /\ calls[c].req.prefix = NoPrefix
       /\ EchoedPrefix(calls[c].out.body) = Prefix("")

\* A call holds an entry it has encoded and is writing, on the miss path or in
\* the background refresh
Writing(c) == calls[c].set = "pending" \/ calls[c].bg = "set"

NeverRevalidated(e) == e.revalidateAfter = NoTime /\ e.expiresAt # NoTime

\* C17: an entry encoded for revalidate false has no revalidateAt and an
\* expiresAt 365 days after its encoding time, whatever expires says; a read
\* of such an entry classifies it EXPIRED exactly when more than 365 days have
\* passed, never STALE, and dispatches no refresh.
C17_NeverRevalidateBackstop ==
  /\ [](\A c \in Calls :
          (Writing(c) /\ calls[c].req.revalidate = Never)
            => /\ calls[c].pending.revalidateAfter = NoTime
               /\ calls[c].pending.expiresAt =
                    calls[c].pending.timestamp + 365 * 86400 * TicksPerSec)
  /\ [][\A c \in Calls :
          ( /\ calls[c].pc = "get"
            /\ calls'[c].pc # "get"
            /\ calls'[c].read # "failed"
            /\ store[calls[c].key] # <<>>
            /\ NeverRevalidated(store[calls[c].key][1].entry) )
          => /\ calls'[c].read \in {"fresh", "expired"}
             /\ calls'[c].read = "expired"
                  <=> now > store[calls[c].key][1].entry.timestamp
                              + 365 * 86400 * TicksPerSec
             /\ calls'[c].bgn = 0
             /\ calls'[c].bg = "none"]_vars

\* C17 witness: an entry encoded for revalidate false is read exactly 365 days
\* after its encoding, and is classified fresh.
C17_Witness ==
  \E c \in Calls :
    /\ calls[c].read = "fresh"
    /\ NeverRevalidated(calls[c].got)
    /\ now = calls[c].got.timestamp + 365 * 86400 * TicksPerSec
    /\ calls[c].bgn = 0

\* The class of an entry at a read, as the contract words it
ClassOf(e, t) ==
  IF e.expiresAt # NoTime /\ t > e.expiresAt THEN "expired"
  ELSE IF e.revalidateAfter # NoTime /\ t > e.revalidateAfter THEN "stale"
  ELSE "fresh"

\* C18: a read that finds an entry classifies it EXPIRED when now is past its
\* expiresAt, otherwise STALE when it has a revalidateAt and now is past it,
\* otherwise FRESH; an expired entry leads to the origin fetch, a stale one
\* to exactly one refresh, a fresh one to none.
C18_ReadClassification ==
  [][\A c \in Calls :
       ( /\ calls[c].pc = "get"
         /\ calls'[c].pc # "get"
         /\ calls'[c].read # "failed"
         /\ store[calls[c].key] # <<>> )
       => LET e == store[calls[c].key][1].entry IN
          /\ calls'[c].read = ClassOf(e, now)
          /\ (e.expiresAt = NoTime /\ e.revalidateAfter = NoTime)
               => calls'[c].read = "fresh"
          /\ now = e.expiresAt => calls'[c].read # "expired"
          /\ now = e.revalidateAfter => calls'[c].read = "fresh"
          /\ calls'[c].read = "expired"
               => calls'[c].pc = "fetch" /\ calls'[c].bgn = 0
          /\ calls'[c].read = "stale" => calls'[c].bgn = 1
          /\ calls'[c].read = "fresh" => calls'[c].bgn = 0]_vars

\* C18 witness: an entry past its revalidateAt is read exactly on its
\* expiresAt and is classified stale, not expired.
C18_Witness ==
  \E c \in Calls :
    /\ calls[c].read = "stale"
    /\ now = calls[c].got.expiresAt
    /\ now > calls[c].got.revalidateAfter

\* The TTL the contract gives an entry written at its encoding time
TTLOf(e) ==
  IF e.expiresAt = NoTime THEN 86400
  ELSE Max(60, (e.expiresAt - e.timestamp) \div TicksPerSec)

\* C19: every entry being written, and every entry in the store, carries the
\* TTL max(60, seconds until expiresAt), or 86400 without an expiresAt; no
\* TTL is below 60.
C19_StoreTTL ==
  /\ \A c \in Calls :
       Writing(c) => calls[c].ttl = TTLOf(calls[c].pending) /\ calls[c].ttl >= 60
  /\ \A k \in Keys :
       store[k] # <<>>
         => store[k][1].ttl = TTLOf(store[k][1].entry) /\ store[k][1].ttl >= 60

\* C19 witness: a refresh is writing an entry that expires in 30 seconds with
\* a TTL of 60, over an entry stored with a TTL of 86400.
C19_Witness ==
  \E c \in Calls :
    /\ calls[c].bg = "set"
    /\ calls[c].ttl = 60
    /\ calls[c].pending.expiresAt - calls[c].pending.timestamp
         = 30 * TicksPerSec
    /\ store[calls[c].key] # <<>>
    /\ store[calls[c].key][1].ttl = 86400

\* C20: a response that has been encoded and decoded has the body, the status
\* and the status text of the original; the entry of a binary content type
\* holds base64 and is flagged binary.
C20_RoundTrip ==
  /\ trial.st \in {"entry", "decoded"}
       => ( ~shouldTreatAsText(trial.response.contentType)
              => /\ trial.entry.isBinary
                 /\ trial.entry.data = toBase64(trial.response.body) )
  /\ trial.st = "decoded"
       => /\ ~trial.decoded.threw
          /\ trial.decoded.body = trial.response.body
          /\ trial.decoded.status = trial.response.status
          /\ trial.decoded.statusText = trial.response.statusText

\* C20 holds of a binary content type with a status that admits a body, and of
\* a textual one whose body is ASCII.
C20_HoldsForBinaryAndAscii ==
  ( /\ trial.st = "decoded"
    /\ trial.response.status \notin NullBodyStatuses
    /\ \/ ~shouldTreatAsText(trial.response.contentType)
       \/ \A i \in 1..Len(trial.response.body) : trial.response.body[i] < 128 )
  => /\ ~trial.decoded.threw
     /\ trial.decoded.body = trial.response.body
     /\ trial.decoded.status = trial.response.status
     /\ trial.decoded.statusText = trial.response.statusText

\* C20, the binary part alone, fails for nothing but a null-body status.
C20_BinaryFailsOnlyOnNullBodyStatus ==
  ( /\ trial.st = "decoded"
    /\ ~shouldTreatAsText(trial.response.contentType)
    /\ trial.decoded.threw )
  => trial.response.status \in NullBodyStatuses

\* C21: every returned response carries X-Cache-Status; it is HIT exactly when
\* the response was built from an entry read FRESH, STALE exactly when built
\* from an entry read STALE, and MISS exactly when it is the answer of an
\* origin fetch of the call; a served response has the entry's status and
\* body, whatever X-Cache-Status the origin sent or the entry holds.
C21_CacheStatusTellsTheSource ==
  \A c \in Calls :
    Returned(c) =>
      /\ calls[c].out.cacheStatus \in {"HIT", "STALE", "MISS"}
      /\ calls[c].out.cacheStatus = "HIT"
           <=> (calls[c].read = "fresh" /\ calls[c].fg = 0)
      /\ calls[c].out.cacheStatus = "STALE"
           <=> (calls[c].read = "stale" /\ calls[c].fg = 0)
      /\ calls[c].out.cacheStatus = "MISS" <=> calls[c].fg >= 1
      /\ calls[c].fg = 0
           => /\ calls[c].out.status = calls[c].got.status
              /\ calls[c].out.body = calls[c].got.data

\* C21 (witness): a STALE response was served from an entry whose stored
\* headers say X-Cache-Status: HIT
C21_Witness ==
  \E c \in Calls :
    /\ Returned(c) /\ calls[c].out.cacheStatus = "STALE"
    /\ GetHeader(calls[c].got.headers, "X-Cache-Status") = "HIT"

\* C22: a call that read a record lacking its status, its data or its headers,
\* or holding headers of no acceptable type, never returns HIT or STALE and is
\* never rejected other than by a failure of the origin itself; what it
\* returns is the answer of an origin fetch, tagged MISS.
C22_MalformedRecordIsAMiss ==
  \A c \in Calls :
    calls[c].got.defect # Sound =>
      /\ calls[c].out.cacheStatus \notin {"HIT", "STALE"}
      /\ calls[c].out.kind \in {"none", "response", "originerror"}
      /\ calls[c].out.kind = "originerror" => calls[c].fgFailed
      /\ calls[c].got.defect \in {"status", "data", "headers"}
           => calls[c].read = "malformed" /\ calls[c].bgn = 0
      /\ Returned(c) => calls[c].out.cacheStatus = "MISS" /\ calls[c].fg >= 1

\* C22 (witness): a record without its status was read while not expired, and
\* the call returned the origin's answer tagged MISS
C22_Witness ==
  \E c \in Calls :
    /\ calls[c].got.defect = "status"
    /\ ~isCacheEntryExpired(calls[c].got)
    /\ Returned(c) /\ calls[c].out.cacheStatus = "MISS"

\* C23: a call that reads a STALE entry dispatches a refresh of its own,
\* whatever refreshes other calls have in flight under the same key; and every
\* set that completes leaves under its key exactly the entry and TTL that set
\* carried, no field of the replaced record surviving, and leaves the other
\* keys alone.
C23_EachStaleReadRefreshesLastSetWins ==
  /\ [](\A c \in Calls : calls[c].read = "stale" => calls[c].bgn = 1)
  /\ [][\A c \in Calls :
          /\ (calls[c].pc = "get" /\ calls'[c].read = "stale")
               => calls'[c].bg = "fetch"
          /\ ((calls[c].bg = "set" /\ calls'[c].bg = "done")
                \/ (calls[c].set = "pending" /\ calls'[c].set = "ok"))
             => /\ store'[calls[c].key] = Slot(calls[c].pending, calls[c].ttl)
                /\ \A k \in Keys : k # calls[c].key => store'[k] = store[k]]_vars

\* C23 (witness): two calls read the same STALE entry, each fetched from the
\* origin on its own, and their sets, carrying different entries, are both
\* under way
C23_Witness ==
  /\ calls[1].read = "stale" /\ calls[2].read = "stale"
  /\ calls[1].key = calls[2].key
  /\ calls[1].got = calls[2].got
  /\ calls[1].bg = "set" /\ calls[2].bg = "set"
  /\ calls[1].pending # calls[2].pending

\* C24: the step at which a call finds the entry STALE is the step at which it
\* returns: the response is the entry as the store held it, tagged STALE, and
\* the refresh's origin fetch is at that moment still unanswered; and a
\* returned STALE response is the entry the call read, wherever its refresh
\* stands and however it ended.
C24_StaleReturnedBeforeRefresh ==
  /\ [][\A c \in Calls :
          (calls[c].pc = "get" /\ calls'[c].read = "stale" /\ calls'[c].fg = 0)
            => /\ calls'[c].pc = "done"
               /\ calls'[c].bg = "fetch"
               /\ calls'[c].out =
                    [kind |-> "response", cacheStatus |-> "STALE",
                     status |-> store[calls[c].key][1].entry.status,
                     body |-> store[calls[c].key][1].entry.data]]_vars
  /\ [](\A c \in Calls :
          (Returned(c) /\ calls[c].out.cacheStatus = "STALE")
            => /\ calls[c].bg \in {"fetch", "set", "done", "failed", "skipped"}
               /\ calls[c].out.status = calls[c].got.status
               /\ calls[c].out.body = calls[c].got.data)

\* C24 (witness): a STALE response has been returned while the refresh's fetch
\* is unanswered and the store still holds the entry that was served
C24_Witness ==
  \E c \in Calls :
    /\ Returned(c) /\ calls[c].out.cacheStatus = "STALE"
    /\ calls[c].bg = "fetch"
    /\ store[calls[c].key] # <<>>
    /\ store[calls[c].key][1].entry = calls[c].got

\* Dispatched work is never dropped: a refresh moves only forward from its
\* fetch to its set and to one of its ends, and a set of the miss path stays
\* pending until it settles.
NeverCancelled ==
  [][\A c \in Calls :
       /\ calls[c].bg = "fetch"
            => calls'[c].bg \in {"fetch", "set", "failed", "skipped"}
       /\ calls[c].bg = "set" => calls'[c].bg \in {"set", "done", "failed"}
       /\ calls[c].set = "pending"
            => calls'[c].set \in {"pending", "ok", "failed"}]_vars

\* C25 (as stated): dispatched work is never cancelled, and every dispatched
\* refresh ends with the store entry overwritten or with a logged failure.
C25_RefreshEndsWrittenOrLogged ==
  /\ NeverCancelled
  /\ \A c \in Calls :
       (calls[c].bg = "fetch") ~> (calls[c].bg \in {"done", "failed"})

\* C25 (amended): dispatched work is never cancelled, and every dispatched
\* refresh ends: with the store entry overwritten by the entry it built, with
\* a logged failure, or, when the origin's answer is not 2xx, with nothing
\* written and nothing logged.
C25_RefreshEnds ==
  /\ NeverCancelled
  /\ [][\A c \in Calls :
          (calls[c].bg = "set" /\ calls'[c].bg = "done")
            => store'[calls[c].key] = Slot(calls[c].pending, calls[c].ttl)]_vars
  /\ [][\A c \in Calls :
          (calls[c].bg = "fetch" /\ calls'[c].bg = "skipped")
            => store' = store]_vars
  /\ \A c \in Calls :
       (calls[c].bg = "fetch")
         ~> (calls[c].bg \in {"done", "failed", "skipped"})

\* C25 (witness): a refresh has ended on an answer that is not 2xx, the store
\* still holding the entry that was read
C25_Witness ==
  \E c \in Calls :
    /\ calls[c].bg = "skipped"
    /\ store[calls[c].key] # <<>>
    /\ store[calls[c].key][1].entry = calls[c].got

\* C26: a call whose method, upper-cased and GET when absent, is not GET, POST
\* or PUT never has a set pending, on the miss path or in a refresh, and no
\* step of it changes the store; unless it read an entry another writer left
\* under its key, what it returns is the origin's answer tagged MISS. Every
\* change of a key's slot is another writer's or the completing set of a call
\* whose method is GET, POST or PUT.
C26_OnlyCacheableMethodsWrite ==
  /\ [](\A c \in Calls :
          MethodOf(calls[c].req) \notin {"GET", "POST", "PUT"} =>
            /\ calls[c].set = "none"
            /\ calls[c].bg \notin {"set", "done"}
            /\ calls[c].pending = NoEntry
            /\ (Returned(c) /\ calls[c].read \notin {"fresh", "stale"})
                 => calls[c].out.cacheStatus = "MISS" /\ calls[c].fg >= 1)
  /\ [][\A k \in MethodKeys :
          store'[k] # store[k] =>
            \/ calls' = calls
            \/ \E c \in Calls :
                 /\ calls'[c] # calls[c]
                 /\ calls[c].key = k
                 /\ MethodOf(calls[c].req) \in {"GET", "POST", "PUT"}
                 /\ calls[c].req.method \in {NoMethod, "post"}]_vars

\* C26 (witness): the refresh of a PATCH request, which read a stale entry of
\* another writer, was answered 200 and ended without a write, while entries
\* written for a request without method and for a 'post' are in the store
C26_Witness ==
  \E c \in Calls :
    /\ calls[c].req.method = "patch"
    /\ calls[c].read = "stale"
    /\ calls[c].bg = "skipped"
    /\ \E r1, r2 \in MethodRequests :
         /\ r1.method = NoMethod /\ r2.method = "post"
         /\ store[KeyOf(r1)] # <<>> /\ store[KeyOf(r2)] # <<>>

\* The fields of an entry come from one answer of the origin: a 2xx status,
\* the body the origin served at the time the entry was stamped, no field
\* missing
FromOneResponse(entry) ==
  /\ entry.defect = Sound
  /\ entry.status \in 200..299
  /\ entry.timestamp # NoTime
  /\ entry.data = IF entry.status \in NullBodyStatuses THEN <<>>
                  ELSE <<entry.timestamp>>

\* C27: a step changes the slot of a key only when the set of a call under
\* that key completes, and then the slot holds exactly the entry and TTL of
\* that set, an entry built from one origin answer; no slot ever becomes empty
\* again; and the step at which a call's get is answered, whatever it finds,
\* leaves the store as it was.
C27_StoreOnlyReplacedBySet ==
  [][/\ \A k \in Keys :
          store'[k] # store[k] =>
            /\ store'[k] # <<>>
            /\ FromOneResponse(store'[k][1].entry)
            /\ \E c \in Calls :
                 /\ calls[c].key = k
                 /\ calls[c].set = "pending" \/ calls[c].bg = "set"
                 /\ calls'[c].set = "ok" \/ calls'[c].bg = "done"
                 /\ store'[k] = Slot(calls[c].pending, calls[c].ttl)
     /\ \A c \in Calls :
          (calls[c].pc = "get" /\ calls'[c].pc # "get") => store' = store]_vars

\* C27 (witness): a call was served the stored entry, and the set of its
\* refresh has replaced that entry by a later one
C27_Witness ==
  \E c \in Calls :
    /\ Returned(c) /\ calls[c].out.cacheStatus = "STALE"
    /\ calls[c].bg = "done"
    /\ store[calls[c].key] # <<>>
    /\ store[calls[c].key][1].entry.timestamp > calls[c].got.timestamp

\* The call keyed a body that is a stream, a byte array or a blob
NormalizedSingleUse(c) ==
  /\ calls[c].pc # "idle"
  /\ ~Bypasses(calls[c].req)
  /\ calls[c].req.body.kind \in {"stream", "bytes", "blob"}

\* C28: a call that keyed a stream, a byte array or a blob hands its outbound
\* fetches a body that can be read again (a byte array or a blob, never the
\* stream that was read), which decodes to the text the key was derived from
\* and, for a stream, holds its chunks in order; and what the origin received on the miss fetch, the fallback fetch
\* and the refresh fetch, which it echoes, is that body.
C28_OutboundFetchesUseSubstitute ==
  \A c \in Calls :
    NormalizedSingleUse(c) =>
      /\ calls[c].sent.kind \in {"bytes", "blob"}
      /\ Utf8Decode(BodyBytes(calls[c].sent))
           = Utf8Decode(BodyBytes(calls[c].req.body))
      /\ (Returned(c) /\ calls[c].fg >= 1)
           => EchoedBody(calls[c].out.body) = BodyBytes(calls[c].sent)
      /\ calls[c].set = "pending" \/ calls[c].bg = "set"
           => EchoedBody(calls[c].pending.data) = BodyBytes(calls[c].sent)
      /\ calls[c].req.body.kind = "stream"
           => BodyBytes(calls[c].sent) = Concat(calls[c].req.body.chunks)

\* C28 (witness): a call whose body was a stream of two chunks read a stale
\* entry, and its refresh fetch delivered both chunks to the origin
C28_Witness ==
  \E c \in Calls :
    /\ calls[c].req.body.kind = "stream"
    /\ calls[c].read = "stale"
    /\ calls[c].bg = "set"
    /\ EchoedBody(calls[c].pending.data) = <<LetterA, LetterB>>

\* The entry or the request with other tags
Retag(x, t) == [x EXCEPT !.tags = t]

\* C29: requests that differ in their tags only have one key; an entry holds
\* the tags of the request it was written for, and nothing else of it, of the
\* request or of what a read decides depends on them: the entry with other
\* tags is classified, validated and served alike, the request with other
\* tags bypasses, reads and stores alike and builds the same entry and TTL but
\* for the tags; a read is classified by the entry's age whatever tags it and
\* the reader carry; and no step of a call empties a slot.
C29_TagsStoredNeverActedOn ==
  /\ [](\A r1, r2 \in TagRequests : KeyOf(r1) = KeyOf(r2))
  /\ [](\A c \in Calls, t \in TagSets :
          /\ (calls[c].set = "pending" \/ calls[c].bg = "set")
               => calls[c].pending.tags = calls[c].req.tags
          /\ calls[c].pc # "idle" =>
               LET r == calls[c].req
                   e == calls[c].got
               IN /\ Bypasses(Retag(r, t)) = Bypasses(r)
                  /\ ReadsStore(Retag(r, t)) = ReadsStore(r)
                  /\ processBodyForCacheKey(Retag(r, t).body)
                       = processBodyForCacheKey(r.body)
                  /\ \A resp \in OriginResponses :
                       /\ ShouldStore(resp, MethodOf(Retag(r, t)))
                            = ShouldStore(resp, MethodOf(r))
                       /\ responseToCache(resp, Retag(r, t))
                            = Retag(responseToCache(resp, r), t)
                  /\ Usable(Slot(Retag(e, t), 0)) = Usable(Slot(e, 0))
                  /\ needsRevalidation(Retag(e, t)) = needsRevalidation(e)
                  /\ \A s \in {"HIT", "STALE"} :
                       cacheToResponse(Retag(e, t), s) = cacheToResponse(e, s))
  /\ [][\A c \in Calls :
          ( /\ calls[c].pc = "get"
            /\ calls'[c].pc # "get"
            /\ calls'[c].read # "failed"
            /\ store[calls[c].key] # <<>> )
          => calls'[c].read = ClassOf(store[calls[c].key][1].entry, now)]_vars
  /\ [][\A k \in TagKeys : store[k] # <<>> => store'[k] # <<>>]_vars

\* C29 (witness): a request tagged news and sport was served HIT from the
\* entry written for a request without tags
C29_Witness ==
  \E c \in Calls :
    /\ calls[c].req.tags = <<"news", "sport">>
    /\ Returned(c) /\ calls[c].out.cacheStatus = "HIT"
    /\ calls[c].got.tags = NoTags
    /\ store[calls[c].key][1].entry.tags = NoTags

\* The set of the refresh of call c completes at this step, and leaves under
\* the key the entry built from the refresh's answer: stamped after the entry
\* that was read, with revalidateAt, expiresAt and TTL counted from that stamp
\* by the options of the request of c.
RefreshOverwrites(c) ==
  (calls[c].bg = "set" /\ calls'[c].bg = "done") =>
    LET r == calls[c].req
        slot == store'[calls[c].key]
        e == slot[1].entry
        window == Max(DaySeconds, 10 * r.revalidate.n)
    IN /\ slot # <<>>
       /\ e = calls[c].pending
       /\ e.status \in 200..299
       /\ e.timestamp > calls[c].got.timestamp
       /\ (r.revalidate.t = "num" /\ r.revalidate.n > 0 /\ r.expires = 0)
            => /\ e.revalidateAfter = e.timestamp + r.revalidate.n * TicksPerSec
               /\ e.expiresAt = e.timestamp + window * TicksPerSec
               /\ slot[1].ttl = Max(MinTTL, window)

\* Call d, a request identical to that of call c, whose refresh has completed,
\* has its get answered at this step with an entry stamped after the one c
\* read and not past its revalidateAt
ReadsRefreshed(c, d) ==
  /\ calls[c].read = "stale" /\ calls[c].bg = "done"
  /\ calls[d].pc = "get" /\ calls[d].req = calls[c].req
  /\ calls'[d].pc # "get" /\ calls'[d].read # "failed"
  /\ store[calls[d].key] # <<>>
  /\ store[calls[d].key][1].entry.timestamp > calls[c].got.timestamp
  /\ now <= store[calls[d].key][1].entry.revalidateAfter

\* Call d has returned, at this step, the stored entry tagged HIT
ServedHit(d) ==
  /\ calls'[d].pc = "done"
  /\ calls'[d].out =
       [kind |-> "response", cacheStatus |-> "HIT",
        status |-> store[calls[d].key][1].entry.status,
        body |-> store[calls[d].key][1].entry.data]

\* C30: the completing set of a refresh leaves under the key the entry built
\* from the refresh's 2xx answer, its times and TTL counted from the refresh;
\* and an identical request that reads the refreshed entry before its
\* revalidateAt returns it tagged HIT.
C30_RefreshedEntryServedFresh ==
  [][\A c, d \in Calls :
       /\ RefreshOverwrites(c)
       /\ ReadsRefreshed(c, d) => ServedHit(d)]_vars

\* C30 holds of every refresh whose answer admits a body: the failure is
\* confined to the null-body statuses.
C30_HoldsUnlessNullBodyStatus ==
  [][\A c, d \in Calls :
       /\ RefreshOverwrites(c)
       /\ ( /\ ReadsRefreshed(c, d)
            /\ store[calls[d].key][1].entry.status \notin NullBodyStatuses )
          => ServedHit(d)]_vars

\* The refresh of call c ends at this step without a write: its fetch failed,
\* was answered with a status that is not 2xx, or its answer could not be
\* encoded
RefreshEndsUnwritten(c) ==
  /\ calls[c].bg = "fetch"
  /\ calls'[c].bg \in {"failed", "skipped"}

\* Call d has its get answered at this step, under the key of call c, whose
\* refresh ended without a write, with the entry c read still in the store and
\* not past its expiresAt
ReadsUnrefreshed(c, d) ==
  /\ calls[c].read = "stale" /\ calls[c].bg \in {"failed", "skipped"}
  /\ calls[d].pc = "get" /\ calls[d].key = calls[c].key
  /\ calls'[d].pc # "get" /\ calls'[d].read # "failed"
  /\ store[calls[d].key] # <<>>
  /\ store[calls[d].key][1].entry = calls[c].got
  /\ now <= calls[c].got.expiresAt

\* Call d has returned, at this step, the stored entry tagged STALE, and the
\* fetch of a refresh of its own is under way
ServedStaleRefreshing(d) ==
  /\ calls'[d].pc = "done"
  /\ calls'[d].out =
       [kind |-> "response", cacheStatus |-> "STALE",
        status |-> store[calls[d].key][1].entry.status,
        body |-> store[calls[d].key][1].entry.data]
  /\ calls'[d].bg = "fetch"
  /\ calls'[d].bgn = 1
  /\ calls'[d].fg = 0

\* C31: a refresh whose fetch fails or is answered with a status that is not
\* 2xx changes nothing in the store; and a request that afterwards reads the
\* same entry, not past its expiresAt, is served it tagged STALE and
\* dispatches a refresh of its own.
C31_FailedRefreshLeavesStaleEntry ==
  [][\A c, d \in Calls :
       /\ RefreshEndsUnwritten(c) => store' = store
       /\ ReadsUnrefreshed(c, d) => ServedStaleRefreshing(d)]_vars

\* C31 holds of every stale entry whose status admits a body: the failure is
\* confined to the null-body statuses.
C31_HoldsUnlessNullBodyStatus ==
  [][\A c, d \in Calls :
       /\ RefreshEndsUnwritten(c) => store' = store
       /\ (ReadsUnrefreshed(c, d)
             /\ calls[c].got.status \notin NullBodyStatuses)
          => ServedStaleRefreshing(d)]_vars

\* The times of an entry with a revalidateAt are in order, the entry is FRESH
\* at the time it is stamped with, and past its revalidateAt there is a time
\* at which it is STALE and not EXPIRED
TimesInOrder(e) ==
  /\ e.timestamp < e.revalidateAfter
  /\ e.revalidateAfter < e.expiresAt
  /\ ClassOf(e, e.timestamp) = "fresh"
  /\ ClassOf(e, e.revalidateAfter + 1) = "stale"

\* C32: every entry with a revalidateAt, being written or stored, has
\* storedAt < revalidateAt < expiresAt; an expires option that does not exceed
\* revalidate N is ignored, and the window to expiresAt is then a day or 10 N
\* seconds, whichever is larger; the entry is FRESH when it is encoded.
C32_TimesInOrder ==
  /\ \A k \in Keys :
       (store[k] # <<>> /\ store[k][1].entry.revalidateAfter # NoTime)
         => TimesInOrder(store[k][1].entry)
  /\ \A c \in Calls :
       (Writing(c) /\ calls[c].pending.revalidateAfter # NoTime) =>
         LET e == calls[c].pending
             N == calls[c].req.revalidate.n
             E == calls[c].req.expires
         IN /\ TimesInOrder(e)
            /\ N > 0
            /\ E <= N =>
                 /\ e.expiresAt - e.timestamp >= DaySeconds * TicksPerSec
                 /\ e.expiresAt - e.timestamp >= 10 * N * TicksPerSec
            /\ e.timestamp = now
                 => ~isCacheEntryExpired(e) /\ ~needsRevalidation(e)

\* C32 (witness): an entry for revalidate 60 and expires 30 is being written,
\* with its expiresAt a day after its stamp
C32_Witness ==
  \E c \in Calls :
    /\ Writing(c)
    /\ calls[c].req.revalidate = Num(60) /\ calls[c].req.expires = 30
    /\ calls[c].pending.expiresAt
         = calls[c].pending.timestamp + DaySeconds * TicksPerSec

\* The type and subtype a content type declares: its pieces up to the first
\* parameter, in lower case
RECURSIVE Essence(_)
Essence(contentType) ==
  IF contentType = <<>> \/ Head(contentType) = ";" THEN <<>>
  ELSE <<ToLowerCase(Head(contentType))>> \o Essence(Tail(contentType))

\* The content types the contract stores as text: text/* and five others
DeclaredText(contentType) ==
  \/ Essence(contentType) # <<>> /\ Head(Essence(contentType)) = "text/"
  \/ Essence(contentType) \in
       {<<"application/", "json">>, <<"application/", "javascript">>,
        <<"application/", "xml">>, <<"application/", "x-www-form-urlencoded">>,
        <<"image/", "svg+xml">>}

\* C33: an entry is stored as text, isBinary false, when the content type of
\* the response is text/*, application/json, application/javascript,
\* application/xml, application/x-www-form-urlencoded or image/svg+xml, and as
\* base64, isBinary true, for every other content type and for none.
C33_ClassifiedByContentType ==
  trial.st \in {"entry", "decoded"} =>
    /\ trial.entry.isBinary = ~DeclaredText(trial.response.contentType)
    /\ trial.entry.data =
         IF DeclaredText(trial.response.contentType)
         THEN Utf8Decode(trial.response.body)
         ELSE toBase64(trial.response.body)

\* C33 holds of every content type whose subtype does not begin with the name
\* of one of the listed subtypes.
C33_HoldsUnlessSubtypeExtendsAListedOne ==
  ( /\ trial.st \in {"entry", "decoded"}
    /\ Len(Essence(trial.response.contentType)) <= 2 )
  => /\ trial.entry.isBinary = ~DeclaredText(trial.response.contentType)
     /\ trial.entry.data =
          IF DeclaredText(trial.response.contentType)
          THEN Utf8Decode(trial.response.body)
          ELSE toBase64(trial.response.body)

\* C34: on a host without waitUntil, a served stale read still starts the
\* background refresh (its fetch is issued, not awaited) and the call returns
\* the STALE response; when that refresh fails or is abandoned, the response
\* the caller got is left as it was, and a call that served a stale entry never
\* ends rejected.
C34_RefreshWithoutWaitUntil ==
  /\ [][~WaitUntilIsFunction =>
          \A c \in Calls :
            /\ (calls[c].pc = "get" /\ calls'[c].read = "stale"
                  /\ calls'[c].fg = 0)
                 => /\ calls'[c].bg = "fetch"
                    /\ calls'[c].bgn = calls[c].bgn + 1
                    /\ calls'[c].pc = "done"
                    /\ calls'[c].out.kind = "response"
                    /\ calls'[c].out.cacheStatus = "STALE"
            /\ (calls[c].bg \in {"fetch", "set"}
                  /\ calls'[c].bg \in {"failed", "abandoned"})
                 => /\ calls'[c].out = calls[c].out
                    /\ calls'[c].pc = calls[c].pc]_vars
  /\ [](~WaitUntilIsFunction =>
          \A c \in Calls :
            (calls[c].pc = "done" /\ calls[c].read = "stale"
               /\ calls[c].fg = 0)
              => /\ calls[c].out.kind = "response"
                 /\ calls[c].out.cacheStatus = "STALE")

\* C34 (witness): without waitUntil a call has returned STALE and its refresh,
\* started all the same, has failed
C34_Witness ==
  /\ ~WaitUntilIsFunction
  /\ \E c \in Calls :
       /\ Returned(c) /\ calls[c].out.cacheStatus = "STALE"
       /\ calls[c].bgn = 1
       /\ calls[c].bg = "failed"

\* A revalidate option that is neither false, nor 0, nor a positive number
NotSet(rv) == rv # Never /\ rv # Num(0) /\ ~(rv.t = "num" /\ rv.n > 0)

\* An entry without a revalidateAt and without an expiresAt
Timeless(e) == e.revalidateAfter = NoTime /\ e.expiresAt = NoTime

\* C35: a request whose revalidate is not set reads the store first; a 2xx
\* answer to it is encoded and written with neither revalidateAt nor expiresAt
\* and with a TTL of 86400 seconds, whatever expires says; and a read that
\* finds such an entry classifies it FRESH, whoever reads and however late,
\* and dispatches no refresh.
C35_UnsetRevalidateKeptADayAlwaysFresh ==
  /\ [](\A c \in Calls :
          (Writing(c) /\ NotSet(calls[c].req.revalidate))
            => Timeless(calls[c].pending) /\ calls[c].ttl = 86400)
  /\ [][\A c \in Calls :
          /\ (calls[c].pc = "idle" /\ calls'[c].pc # "idle"
                /\ NotSet(calls'[c].req.revalidate))
               => calls'[c].pc = "get"
          /\ (calls[c].pc = "fetch" /\ calls'[c].pc = "done"
                /\ NotSet(calls[c].req.revalidate)
                /\ calls'[c].out.status \in {200, 204})
               => calls'[c].set = "pending"
          /\ (calls[c].pc = "get" /\ calls'[c].pc # "get"
                /\ calls'[c].read # "failed"
                /\ store[calls[c].key] # <<>>
                /\ Timeless(store[calls[c].key][1].entry))
               => /\ calls'[c].read = "fresh"
                  /\ calls'[c].got = store[calls[c].key][1].entry
                  /\ calls'[c].bg = "none"
                  /\ calls'[c].bgn = 0]_vars

\* C35 (witness): an entry written for a request without revalidate and with
\* an expires of 7200 seconds is served as a HIT more than a year later to a
\* request that revalidates every minute
C35_Witness ==
  \E c \in Calls :
    /\ Returned(c) /\ calls[c].out.cacheStatus = "HIT"
    /\ calls[c].read = "fresh"
    /\ calls[c].req.revalidate = Num(60)
    /\ Timeless(calls[c].got)
    /\ now > calls[c].got.timestamp + YearDays * DaySeconds * TicksPerSec
    /\ store[calls[c].key][1].ttl = 86400

\* What the times of the record in a slot and the time of the read make of it
SlotClass(slot, t) == IF slot = <<>> THEN "absent" ELSE ClassOf(slot[1].entry, t)

\* C36: when a request that does not bypass has read the store, its reading
\* is what the times of the record and the time of the read make of the record
\* under the key of any request that differs from it in revalidate and expires
\* only: those requests share one record, and the reader's own revalidate and
\* expires have no part in the reading; a record read as fresh or stale is the
\* one it serves.
C36_ReadingIgnoresReadersOptions ==
  [][\A c \in Calls :
       (calls[c].pc = "get" /\ calls'[c].pc # "get"
          /\ calls'[c].read # "failed")
         => \A r \in ShareRequests :
              /\ calls'[c].read = SlotClass(store[KeyOf(r)], now)
              /\ calls'[c].read \in {"fresh", "stale"}
                   => calls'[c].got = store[KeyOf(r)][1].entry]_vars

\* C36 (witness): a request that never revalidates is served, STALE, the
\* record another request wrote with a revalidation window, and has dispatched
\* its refresh
C36_Witness ==
  \E c \in Calls :
    /\ Returned(c) /\ calls[c].out.cacheStatus = "STALE"
    /\ calls[c].req.revalidate = Never
    /\ calls[c].read = "stale"
    /\ calls[c].bgn = 1

\* C37: no call issues more than one foreground origin fetch, on any path.
C37_AtMostOneForegroundFetch ==
  \A c \in Calls : calls[c].fg <= 1

\* C37 holds unless the origin fetch of the miss path fails or its answer
\* cannot be encoded: a second foreground fetch is only ever issued by the
\* catch taking over from that fetch, and there is never a third.
C37_HoldsUnlessMissPathFetchFails ==
  [][\A c \in Calls :
       /\ calls'[c].fg <= 2
       /\ (calls'[c].fg = 2 /\ calls[c].fg < 2)
            => calls[c].pc = "fetch" /\ calls'[c].pc = "fallback"]_vars

\* The time at which the origin response an entry is built from was fetched:
\* the entry is encoded, and stamped, in the step that receives the response
FetchedAt(e) == e.timestamp

C39_CacheModeSeparatesEntries ==
  [][\A c \in Calls : \A r \in ModeRequests :
       (calls'[c].pc # "idle" /\ r.cache # calls'[c].req.cache)
         => /\ calls'[c].key # KeyOf(r)
            /\ calls'[c].key = KeyOf(calls'[c].req)
            /\ (calls[c].pc = "get" /\ calls'[c].pc # "get"
                  /\ calls'[c].read # "failed")
                 => IF store[KeyOf(calls[c].req)] = <<>>
                    THEN calls'[c].read = "absent" /\ calls'[c].bgn = 0
                    ELSE calls'[c].got = store[KeyOf(calls[c].req)][1].entry
            /\ ((calls[c].bg = "set" /\ calls'[c].bg = "done")
                  \/ (calls[c].set = "pending" /\ calls'[c].set = "ok"))
                 => store'[KeyOf(r)] = store[KeyOf(r)]]_vars

\* C39 (witness): a force-cache request has missed and fetches from the origin
\* while the slot of the default mode holds an entry that is not expired
C39_Witness ==
  \E c \in Calls : \E r \in ModeRequests :
    /\ calls[c].req.cache = "force-cache"
    /\ r.cache = "auto no cache"
    /\ calls[c].read = "absent"
    /\ calls[c].pc = "fetch"
    /\ Usable(store[KeyOf(r)])

====
